---- MODULE Spec2Model ----
(***************************************************************************)
(* yema: the schema IR (yema.Type), the schema builder (parser.From), the  *)
(* instance validator (validator.Validate) and the emitter walk.           *)
(*                                                                         *)
(* All three are pure functions over trees; the state machines below draw  *)
(* their inputs in Init and apply the functions in their actions.          *)
(***************************************************************************)
EXTENDS Integers, Sequences, FiniteSets, TLC

VARIABLES
    raw,        \* the untyped tree handed to parser.From
    sch,        \* the *yema.Type in use (built by From or made by the caller)
    buildErr,   \* the error returned by parser.From (NoBuildError: nil)
    dat,        \* the instance handed to validator.Validate
    result,     \* the []error Validate returned for dat (<<>> before the call)
    prevData,   \* the instance of the previous Validate call
    step,       \* what the caller did to the instance between two calls
    emitted,    \* what the emitter called last returned (None before the call)
    calls,      \* the invocations in flight on the shared schema
    pc          \* the caller's position

vars == <<raw, sch, buildErr, dat, result, prevData, step, emitted, calls, pc>>

(***************************************************************************)
(* Whole numbers.  int64, uint64 and the float32 bound do not fit the      *)
(* checker's machine integers, so a number is a sign and a magnitude of    *)
(* NLimbs decimal limbs (most significant first), each in 0 .. Base-1.     *)
(* Zero is never negative.                                                 *)
(***************************************************************************)
Base == 10^9

NLimbs == 5

ZeroMag == [i \in 1..NLimbs |-> 0]

\* the magnitude with the given low limbs (most significant first)
Mag(limbs) ==
    [i \in 1..NLimbs |->
        IF i > NLimbs - Len(limbs) THEN limbs[i - (NLimbs - Len(limbs))] ELSE 0]

Pos(limbs) == [neg |-> FALSE, mag |-> Mag(limbs)]

Neg(limbs) == [neg |-> Mag(limbs) # ZeroMag, mag |-> Mag(limbs)]

\* a number small enough to be written as a machine integer
Num(n) == IF n < 0 THEN Neg(<<(-n) \div Base, (-n) % Base>>)
                   ELSE Pos(<<n \div Base, n % Base>>)

MagLess(a, b) ==
    \E i \in 1..NLimbs : a[i] < b[i] /\ \A j \in 1..(i-1) : a[j] = b[j]

Less(x, y) ==
    CASE x.neg /\ ~y.neg -> TRUE
      [] ~x.neg /\ y.neg -> FALSE
      [] ~x.neg /\ ~y.neg -> MagLess(x.mag, y.mag)
      [] OTHER -> MagLess(y.mag, x.mag)

Leq(x, y) == x = y \/ Less(x, y)

\* carry into limb i of a + b (limb NLimbs is the least significant)
RECURSIVE Carry(_, _, _)
Carry(a, b, i) ==
    IF i = NLimbs THEN 0
    ELSE (a[i+1] + b[i+1] + Carry(a, b, i+1)) \div Base

MagAdd(a, b) == [i \in 1..NLimbs |-> (a[i] + b[i] + Carry(a, b, i)) % Base]

\* borrow from limb i of a - b, for a >= b
RECURSIVE Borrow(_, _, _)
Borrow(a, b, i) ==
    IF i = NLimbs THEN 0
    ELSE IF a[i+1] - b[i+1] - Borrow(a, b, i+1) < 0 THEN 1 ELSE 0

MagSub(a, b) ==
    [i \in 1..NLimbs |-> (a[i] - b[i] - Borrow(a, b, i) + Base) % Base]

Norm(neg, mag) == [neg |-> neg /\ mag # ZeroMag, mag |-> mag]

Add(x, y) ==
    IF x.neg = y.neg THEN Norm(x.neg, MagAdd(x.mag, y.mag))
    ELSE IF MagLess(x.mag, y.mag) THEN Norm(y.neg, MagSub(y.mag, x.mag))
    ELSE Norm(x.neg, MagSub(x.mag, y.mag))

Negate(x) == Norm(~x.neg, x.mag)

Sub(x, y) == Add(x, Negate(y))

RECURSIVE Pow2(_)
Pow2(n) == IF n <= 30 THEN Num(2^n) ELSE LET h == Pow2(n-1) IN Add(h, h)


(***************************************************************************)
(* Go strings that the code takes apart or builds (map keys, field names,  *)
(* error paths) are sequences of one-character strings.                    *)
(***************************************************************************)
Digits == <<"0", "1", "2", "3", "4", "5", "6", "7", "8", "9">>

\* strconv.Itoa for i >= 0
RECURSIVE Itoa(_)
Itoa(i) == IF i < 10 THEN <<Digits[i + 1]>>
           ELSE Itoa(i \div 10) \o <<Digits[(i % 10) + 1]>>

(***************************************************************************)
(* yema.Type.  A nil Struct or Array pointer is an absent record field.    *)
(***************************************************************************)
SignedKinds == {"Int", "Int8", "Int16", "Int32", "Int64"}

UnsignedKinds == {"Uint", "Uint8", "Uint16", "Uint32", "Uint64"}

FloatKinds == {"Float32", "Float64"}

Kinds == {"Bool", "String", "Bytes", "Array", "Struct"}
             \cup SignedKinds \cup UnsignedKinds \cup FloatKinds

Prim(kind, optional) == [Kind |-> kind, Optional |-> optional]

ArrayOf(elem, optional) == [Kind |-> "Array", Optional |-> optional, Array |-> elem]

StructOf(fields, optional) ==
    [Kind |-> "Struct", Optional |-> optional, Struct |-> fields]

(***************************************************************************)
(* interface{} values, tagged by their dynamic Go type.                    *)
(*   nil; bool; string; []byte; the Go integer types, n the value;         *)
(*   float32 and float64, the value being n + 1/2 when half and n          *)
(*   otherwise (n is the floor); json.Number, a string whose text is an    *)
(*   integer literal ("int", value n), a literal with a fraction or an     *)
(*   exponent ("dec", value n + 1/2 when half) or no number ("bad");       *)
(*   []interface{}; map[string]interface{}.                                *)
(***************************************************************************)
GoSigned == {"int", "int8", "int16", "int32", "int64"}

GoUnsigned == {"uint", "uint8", "uint16", "uint32", "uint64"}

Nil == [t |-> "nil"]

Bool(b) == [t |-> "bool", b |-> b]

String(s) == [t |-> "string", s |-> s]

Bytes == [t |-> "[]byte"]

Integer(ty, n) == [t |-> ty, n |-> n]

Float(ty, n, half) == [t |-> ty, n |-> n, half |-> half]

JsonNumber(syn, n, half) == [t |-> "json.Number", syn |-> syn, n |-> n, half |-> half]

Slice(elems) == [t |-> "[]interface{}", elems |-> elems]

Map(m) == [t |-> "map[string]interface{}", m |-> m]

MinInt64 == Neg(<<9, 223372036, 854775808>>)

MaxInt64 == Pos(<<9, 223372036, 854775807>>)

MaxUint64 == Pos(<<18, 446744073, 709551615>>)

Zero == Num(0)

(***************************************************************************)
(* Conversions.  A float-to-integer conversion of a value the target type  *)
(* cannot hold is implementation-dependent in Go: go.f2i and go.f2u are    *)
(* what the build at hand produces ("indefinite": the x86 integer          *)
(* indefinite 0x8000000000000000; "saturate": the nearest bound, as on     *)
(* arm64; "zero": the sign bit flipped back by the unsigned sequence).     *)
(***************************************************************************)
Builds == { [f2i |-> "indefinite", f2u |-> "indefinite"],
            [f2i |-> "indefinite", f2u |-> "zero"],
            [f2i |-> "saturate", f2u |-> "saturate"] }

\* the integer part, rounded toward zero
Trunc(v) == IF v.half /\ v.n.neg THEN Add(v.n, Num(1)) ELSE v.n

\* int64(v) for a float64 v
Int64OfFloat(v, go) ==
    LET tr == Trunc(v) IN
    IF Leq(MinInt64, tr) /\ Leq(tr, MaxInt64) THEN tr
    ELSE IF go.f2i = "saturate" /\ ~tr.neg THEN MaxInt64
    ELSE MinInt64

\* uint64(v) for a float64 v >= 0
Uint64OfFloat(v, go) ==
    LET tr == Trunc(v) IN
    IF Leq(tr, MaxUint64) THEN tr
    ELSE CASE go.f2u = "saturate" -> MaxUint64
           [] go.f2u = "zero" -> Zero
           [] OTHER -> Negate(MinInt64)

\* float64(i) for an integer i: exact for every integer a float64 holds;
\* the two maxima, which no float64 holds, round up to 2^63 and 2^64
Float64OfInteger(i) ==
    IF i = MaxInt64 \/ i = MaxUint64 THEN Float("float64", Add(i, Num(1)), FALSE)
    ELSE Float("float64", i, FALSE)

SameFloat(v, w) == v.n = w.n /\ v.half = w.half

\* json.Number.Int64: strconv.ParseInt(s, 10, 64)
JsonInt64(v) ==
    CASE v.syn # "int" -> [val |-> Zero, err |-> TRUE]
      [] Less(MaxInt64, v.n) -> [val |-> MaxInt64, err |-> TRUE]
      [] Less(v.n, MinInt64) -> [val |-> MinInt64, err |-> TRUE]
      [] OTHER -> [val |-> v.n, err |-> FALSE]

\* json.Number.Float64: strconv.ParseFloat(s, 64)
JsonFloat64(v) ==
    IF v.syn = "bad" THEN [val |-> Float("float64", Zero, FALSE), err |-> TRUE]
    ELSE [val |-> Float("float64", v.n, v.half), err |-> FALSE]

(***************************************************************************)
(* Errors: the format string with its path argument.  NoError is Go's nil  *)
(* error.                                                                  *)
(***************************************************************************)
NoError == [msg |-> "nil", path |-> <<>>]

Errorf(msg, path) == [msg |-> msg, path |-> path]

Int8Min == -128
\* a bound that is one too high
Int8MaxOffByOne == 127 + 1

Int8Max == 127
Int16Min == -32768
Int16Max == 32767
Int32Min == Neg(<<2, 147483648>>)
Int32Max == 2147483647
Uint8Max == 255
Uint16Max == 65535
Uint32Max == Pos(<<4, 294967295>>)

\* validateIntValue: the integer kinds
validateIntValue(value, kind, path, go) ==
    LET conv ==
          CASE value.t = "json.Number" ->
                 LET r == JsonInt64(value) IN [intVal |-> r.val, isInt |-> ~r.err]
            [] value.t \in GoSigned -> [intVal |-> value.n, isInt |-> TRUE]
            [] value.t = "float64" ->
                 IF SameFloat(value, Float64OfInteger(Int64OfFloat(value, go)))
                 THEN [intVal |-> Int64OfFloat(value, go), isInt |-> TRUE]
                 ELSE [intVal |-> Zero, isInt |-> FALSE]
            [] OTHER -> [intVal |-> Zero, isInt |-> FALSE]
        intVal == conv.intVal
    IN
    IF ~conv.isInt THEN Errorf("field '%s' must be an integer", path)
    ELSE CASE kind = "Int8" ->
                IF Less(intVal, Num(Int8Min)) \/ Less(Num(Int8Max), intVal)
                THEN Errorf("field '%s' value out of range for int8", path)
                ELSE NoError
           [] kind = "Int16" ->
                IF Less(intVal, Num(Int16Min)) \/ Less(Num(Int16Max), intVal)
                THEN Errorf("field '%s' value out of range for int16", path)
                ELSE NoError
           [] kind = "Int32" ->
                IF Less(intVal, Int32Min) \/ Less(Num(Int32Max), intVal)
                THEN Errorf("field '%s' value out of range for int32", path)
                ELSE NoError
           [] OTHER -> NoError

\* validateUintValue: the unsigned integer kinds
validateUintValue(value, kind, path, go) ==
    LET conv ==
          CASE value.t = "json.Number" ->
                 LET r == JsonInt64(value) IN
                 IF ~r.val.neg THEN [uintVal |-> r.val, isUint |-> ~r.err]
                 ELSE [uintVal |-> Zero, isUint |-> FALSE]
            [] value.t \in GoUnsigned -> [uintVal |-> value.n, isUint |-> TRUE]
            [] value.t \in GoSigned ->
                 IF ~value.n.neg THEN [uintVal |-> value.n, isUint |-> TRUE]
                 ELSE [uintVal |-> Zero, isUint |-> FALSE]
            [] value.t = "float64" ->
                 IF ~value.n.neg
                    /\ SameFloat(value, Float64OfInteger(Uint64OfFloat(value, go)))
                 THEN [uintVal |-> Uint64OfFloat(value, go), isUint |-> TRUE]
                 ELSE [uintVal |-> Zero, isUint |-> FALSE]
            [] OTHER -> [uintVal |-> Zero, isUint |-> FALSE]
        uintVal == conv.uintVal
    IN
    IF ~conv.isUint THEN Errorf("field '%s' must be a non-negative integer", path)
    ELSE CASE kind = "Uint8" ->
                IF Less(Num(Uint8Max), uintVal)
                THEN Errorf("field '%s' value out of range for uint8", path)
                ELSE NoError
           [] kind = "Uint16" ->
                IF Less(Num(Uint16Max), uintVal)
                THEN Errorf("field '%s' value out of range for uint16", path)
                ELSE NoError
           [] kind = "Uint32" ->
                IF Less(Uint32Max, uintVal)
                THEN Errorf("field '%s' value out of range for uint32", path)
                ELSE NoError
           [] OTHER -> NoError

\* 3.4e38, the float32 bound of validateFloatValue
Float32Bound == Pos(<<340, 0, 0, 0, 0>>)

\* validateFloatValue: the float kinds
validateFloatValue(value, kind, path) ==
    LET conv ==
          CASE value.t = "json.Number" ->
                 LET r == JsonFloat64(value) IN [floatVal |-> r.val, isFloat |-> ~r.err]
            [] value.t \in {"float32", "float64"} ->
                 [floatVal |-> Float("float64", value.n, value.half), isFloat |-> TRUE]
            [] value.t \in GoSigned \cup GoUnsigned ->
                 [floatVal |-> Float64OfInteger(value.n), isFloat |-> TRUE]
            [] OTHER -> [floatVal |-> Float("float64", Zero, FALSE), isFloat |-> FALSE]
        floatVal == conv.floatVal
        \* floatVal > 3.4e38 || floatVal < -3.4e38
        tooBig == \/ Less(Float32Bound, floatVal.n)
                  \/ floatVal.n = Float32Bound /\ floatVal.half
        tooSmall == Less(floatVal.n, Negate(Float32Bound))
    IN
    IF ~conv.isFloat THEN Errorf("field '%s' must be a number", path)
    ELSE IF kind = "Float32" /\ (tooBig \/ tooSmall)
         THEN Errorf("field '%s' value out of range for float32", path)
         ELSE NoError


(***************************************************************************)
(* Map iteration.  Go iterates a map in an unspecified order, anew on      *)
(* every range statement: a function that ranges over a map is modelled    *)
(* by the set of results it can return over all iteration orders.          *)
(***************************************************************************)
Orders(S) ==
    {o \in [1..Cardinality(S) -> S] : \A i, j \in DOMAIN o : i # j => o[i] # o[j]}

RECURSIVE validateValue(_, _, _, _)
RECURSIVE validateElems(_, _, _, _, _)
RECURSIVE validateFields(_, _, _, _, _)

\* a struct loop that names a missing field without the path of its record
validateFieldsBareName(mapValue, fields, order, path, go) ==
    IF order = <<>> THEN {NoError}
    ELSE LET fieldName == Head(order)
             fieldType == fields[fieldName]
             nestedPath == path \o <<".">> \o fieldName
         IN IF fieldName \notin DOMAIN mapValue
            THEN IF ~fieldType.Optional
                 THEN {Errorf("required field '%s' is missing", fieldName)}
                 ELSE validateFields(mapValue, fields, Tail(order), path, go)
            ELSE LET errs == validateValue(mapValue[fieldName], fieldType, nestedPath, go)
                 IN (errs \ {NoError})
                      \cup (IF NoError \in errs
                            THEN validateFields(mapValue, fields, Tail(order), path, go)
                            ELSE {})

\* a struct loop that takes every field for a required one
validateFieldsAllRequired(mapValue, fields, order, path, go) ==
    IF order = <<>> THEN {NoError}
    ELSE LET fieldName == Head(order)
             fieldType == fields[fieldName]
             nestedPath == path \o <<".">> \o fieldName
         IN IF fieldName \notin DOMAIN mapValue
            THEN {Errorf("required field '%s' is missing", nestedPath)}
            ELSE LET errs == validateValue(mapValue[fieldName], fieldType, nestedPath, go)
                 IN (errs \ {NoError})
                      \cup (IF NoError \in errs
                            THEN validateFields(mapValue, fields, Tail(order), path, go)
                            ELSE {})

\* validateValue: the errors the call can return (NoError: nil)
\* an array loop that goes on after a failing element and returns the error
\* of the last one
validateElemsLast(arr, k, elemSchema, path, go) ==
    IF k > Len(arr) THEN {NoError}
    ELSE LET elemPath == path \o <<"[">> \o Itoa(k - 1) \o <<"]">>
             errs == validateValue(arr[k], elemSchema, elemPath, go)
             rest == validateElems(arr, k + 1, elemSchema, path, go)
         IN (rest \ {NoError}) \cup (IF NoError \in rest THEN errs ELSE {})

validateValue(value, schema, path, go) ==
    IF value.t = "nil"
    THEN IF schema.Optional THEN {NoError}
         ELSE {Errorf("field '%s' is nil but not optional", path)}
    ELSE
    CASE schema.Kind = "Bool" ->
           IF value.t # "bool" THEN {Errorf("field '%s' must be a boolean", path)}
           ELSE {NoError}
      [] schema.Kind = "String" ->
           IF value.t # "string" THEN {Errorf("field '%s' must be a string", path)}
           ELSE {NoError}
      [] schema.Kind \in SignedKinds -> {validateIntValue(value, schema.Kind, path, go)}
      [] schema.Kind \in UnsignedKinds -> {validateUintValue(value, schema.Kind, path, go)}
      [] schema.Kind \in FloatKinds -> {validateFloatValue(value, schema.Kind, path)}
      [] schema.Kind = "Array" ->
           IF "Array" \notin DOMAIN schema
           THEN {Errorf("array type definition for '%s' is nil", path)}
           ELSE IF value.t # "[]interface{}"
           THEN {Errorf("field '%s' must be an array", path)}
           ELSE validateElems(value.elems, 1, schema.Array, path, go)
      [] schema.Kind = "Struct" ->
           IF "Struct" \notin DOMAIN schema
           THEN {Errorf("struct type definition for '%s' is nil", path)}
           ELSE IF value.t # "map[string]interface{}"
           THEN {Errorf("field '%s' must be a map[string]interface{}", path)}
           ELSE UNION { validateFields(value.m, schema.Struct, order, path, go) :
                          order \in Orders(DOMAIN schema.Struct) }
      [] schema.Kind = "Bytes" ->
           IF value.t # "[]byte" /\ value.t # "string"
           THEN {Errorf("field '%s' must be bytes or string", path)}
           ELSE {NoError}
      [] OTHER -> {Errorf("unsupported type %v for field '%s'", path)}

\* the array loop of validateValue from element arr[k] on (arr[1] is Go's arr[0]):
\* the first element error is returned
validateElems(arr, k, elemSchema, path, go) ==
    IF k > Len(arr) THEN {NoError}
    ELSE LET elemPath == path \o <<"[">> \o Itoa(k - 1) \o <<"]">>
             errs == validateValue(arr[k], elemSchema, elemPath, go)
         IN (errs \ {NoError})
              \cup (IF NoError \in errs
                    THEN validateElems(arr, k + 1, elemSchema, path, go) ELSE {})

\* the struct loop of validateValue over the fields still to visit, in the
\* order the map yields them: the first field error is returned
validateFields(mapValue, fields, order, path, go) ==
    IF order = <<>> THEN {NoError}
    ELSE LET fieldName == Head(order)
             fieldType == fields[fieldName]
             nestedPath == path \o <<".">> \o fieldName
         IN IF fieldName \notin DOMAIN mapValue
            THEN IF ~fieldType.Optional
                 THEN {Errorf("required field '%s' is missing", nestedPath)}
                 ELSE validateFields(mapValue, fields, Tail(order), path, go)
            ELSE LET errs == validateValue(mapValue[fieldName], fieldType, nestedPath, go)
                 IN (errs \ {NoError})
                      \cup (IF NoError \in errs
                            THEN validateFields(mapValue, fields, Tail(order), path, go)
                            ELSE {})

\* the loop of Validate over the root fields still to visit: every field's
\* error is appended
RECURSIVE validateRoot(_, _, _, _)
\* a root loop that takes every field for a required one
validateRootAllRequired(data, fields, order, go) ==
    IF order = <<>> THEN {<<>>}
    ELSE LET fieldName == Head(order)
             fieldType == fields[fieldName]
             first ==
               IF fieldName \notin DOMAIN data
               THEN {<<Errorf("required field '%s' is missing", fieldName)>>}
               ELSE {IF err = NoError THEN <<>> ELSE <<err>> :
                       err \in validateValue(data[fieldName], fieldType, fieldName, go)}
         IN {f \o rest : f \in first,
                         rest \in validateRoot(data, fields, Tail(order), go)}

\* a root loop that returns at the first error
validateRootFirstError(data, fields, order, go) ==
    IF order = <<>> THEN {<<>>}
    ELSE LET fieldName == Head(order)
             fieldType == fields[fieldName]
             first ==
               IF fieldName \notin DOMAIN data
               THEN IF ~fieldType.Optional
                    THEN {<<Errorf("required field '%s' is missing", fieldName)>>}
                    ELSE {<<>>}
               ELSE {IF err = NoError THEN <<>> ELSE <<err>> :
                       err \in validateValue(data[fieldName], fieldType, fieldName, go)}
         IN {IF f = <<>> THEN rest ELSE f : f \in first,
                         rest \in validateRoot(data, fields, Tail(order), go)}

validateRoot(data, fields, order, go) ==
    IF order = <<>> THEN {<<>>}
    ELSE LET fieldName == Head(order)
             fieldType == fields[fieldName]
             first ==
               IF fieldName \notin DOMAIN data
               THEN IF ~fieldType.Optional
                    THEN {<<Errorf("required field '%s' is missing", fieldName)>>}
                    ELSE {<<>>}
               ELSE {IF err = NoError THEN <<>> ELSE <<err>> :
                       err \in validateValue(data[fieldName], fieldType, fieldName, go)}
         IN {f \o rest : f \in first,
                         rest \in validateRoot(data, fields, Tail(order), go)}

\* a Validate that rejects the keys the schema does not name
ValidateKnownKeys(data, schema, go) ==
    IF "Struct" \notin DOMAIN schema THEN {<<Errorf("invalid schema", <<>>)>>}
    ELSE IF ~(DOMAIN data \subseteq DOMAIN schema.Struct)
    THEN {<<Errorf("unknown field", <<>>)>>}
    ELSE UNION { validateRoot(data, schema.Struct, order, go) :
                   order \in Orders(DOMAIN schema.Struct) }

\* a Validate that keeps the first error of the list only
ValidateFirstOnly(data, schema, go) ==
    IF "Struct" \notin DOMAIN schema THEN {<<Errorf("invalid schema", <<>>)>>}
    ELSE UNION { {IF errs = <<>> THEN errs ELSE <<Head(errs)>> :
                    errs \in validateRoot(data, schema.Struct, order, go)} :
                   order \in Orders(DOMAIN schema.Struct) }

\* Validate: the error lists the call can return
Validate(data, schema, go) ==
    IF "Struct" \notin DOMAIN schema THEN {<<Errorf("invalid schema", <<>>)>>}
    ELSE UNION { validateRoot(data, schema.Struct, order, go) :
                   order \in Orders(DOMAIN schema.Struct) }


(***************************************************************************)
(* parser.From: the schema builder.  Its input is a tree of maps (keys    *)
(* are Go strings, so sequences of characters), sequences and strings.     *)
(* The parse functions return (yema.Type, error): [ok, typ] or [ok, err].  *)
(* As with Validate, a function that ranges over a map is the set of its   *)
(* results over all iteration orders.                                      *)
(***************************************************************************)
\* no value: a variable of the caller that holds nothing yet
None == [t |-> "none"]

NoBuildError == [msg |-> "nil", field |-> <<>>, arg |-> None]

BuildError(msg, field, arg) == [msg |-> msg, field |-> field, arg |-> arg]

\* yema.Type{}: the zero value the parse functions return beside an error
ZeroType == [Kind |-> "Invalid", Optional |-> FALSE]

\* a return of the zero value of yema.Type with no error
BuiltZero(typ) == [ok |-> TRUE, typ |-> ZeroType, err |-> NoBuildError]

\* return typ, nil
Built(typ) == [ok |-> TRUE, typ |-> typ, err |-> NoBuildError]

\* return yema.Type{}, err
Failed(err) == [ok |-> FALSE, typ |-> ZeroType, err |-> err]

\* a From that returns the zero schema beside its error
FailedFromZero(err) == [ok |-> FALSE, typ |-> ZeroType, err |-> err]

\* return nil, err: From returns a pointer
FailedFrom(err) == [ok |-> FALSE, typ |-> None, err |-> err]

\* the letters of the characters used here
Lower ==
    <<"a", "b", "c", "d", "e", "f", "g", "h", "i", "j", "k", "l", "m",
      "n", "o", "p", "q", "r", "s", "t", "u", "v", "w", "x", "y", "z">>

Upper ==
    <<"A", "B", "C", "D", "E", "F", "G", "H", "I", "J", "K", "L", "M",
      "N", "O", "P", "Q", "R", "S", "T", "U", "V", "W", "X", "Y", "Z">>

\* unicode.IsUpper
IsUpper(char) == \E k \in DOMAIN Upper : Upper[k] = char

\* unicode.IsLetter and unicode.IsDigit
Letters == {Lower[k] : k \in DOMAIN Lower} \cup {Upper[k] : k \in DOMAIN Upper}

IsLetter(r) == r \in Letters

IsDigit(r) == \E k \in DOMAIN Digits : Digits[k] = r

\* a name check that leaves out the test of the first character
isValidFieldNameAnyFirst(name) ==
    /\ name # <<>>
    /\ \A i \in 1..Len(name) : IsLetter(name[i]) \/ IsDigit(name[i]) \/ name[i] = "_"

isValidFieldName(name) ==
    /\ name # <<>>
    /\ IsLetter(name[1]) \/ name[1] = "_"
    /\ \A k \in 2..Len(name) : IsLetter(name[k]) \/ IsDigit(name[k]) \/ name[k] = "_"

\* strings.HasSuffix(key, "?")
HasSuffix(key) == key # <<>> /\ key[Len(key)] = "?"

\* key[:len(key)-1] when the key ends in "?", the key otherwise
StripSuffix(key) == IF HasSuffix(key) THEN SubSeq(key, 1, Len(key) - 1) ELSE key

\* a switch that also takes the name of the string kind with a capital
TypeNamesCapital ==
    [ bool |-> "Bool", int |-> "Int", int8 |-> "Int8", int16 |-> "Int16",
      int32 |-> "Int32", int64 |-> "Int64", uint |-> "Uint", uint8 |-> "Uint8",
      uint16 |-> "Uint16", uint32 |-> "Uint32", uint64 |-> "Uint64",
      float32 |-> "Float32", float64 |-> "Float64", string |-> "String",
      bytes |-> "Bytes", String |-> "String" ]

\* the type names of parseValueToType's switch
TypeNames ==
    [ bool |-> "Bool", int |-> "Int", int8 |-> "Int8", int16 |-> "Int16",
      int32 |-> "Int32", int64 |-> "Int64", uint |-> "Uint", uint8 |-> "Uint8",
      uint16 |-> "Uint16", uint32 |-> "Uint32", uint64 |-> "Uint64",
      float32 |-> "Float32", float64 |-> "Float64", string |-> "String",
      bytes |-> "Bytes" ]

\* structType[fieldName] = fieldType
Put(structType, fieldName, fieldType) ==
    [f \in DOMAIN structType \cup {fieldName} |->
        IF f = fieldName THEN fieldType ELSE structType[f]]

RECURSIVE parseValueToType(_, _, _)
RECURSIVE parseArray(_, _, _)
RECURSIVE parseStruct(_, _, _, _)

\* an array case that takes the first item of a longer sequence
parseArrayFirstItem(fieldName, v, isOptional) ==
    IF Len(v) = 0
    THEN {Failed(BuildError("failed parsing field '%s', must declare type of array item",
                            fieldName, None))}
    ELSE {IF item.ok THEN Built(ArrayOf(item.typ, isOptional)) ELSE item :
            item \in parseValueToType(fieldName, v[1], FALSE)}

\* an array case that hands the "?" of the field on to the item
parseArrayOptionalItem(fieldName, v, isOptional) ==
    IF Len(v) = 0
    THEN {Failed(BuildError("failed parsing field '%s', must declare type of array item",
                            fieldName, None))}
    ELSE IF Len(v) > 1
    THEN {Failed(BuildError("failed parsing field '%s', can only declare type of array items once",
                            fieldName, None))}
    ELSE {IF item.ok THEN Built(ArrayOf(item.typ, isOptional)) ELSE item :
            item \in parseValueToType(fieldName, v[1], isOptional)}

\* parseValueToType, case []interface{}
parseArray(fieldName, v, isOptional) ==
    IF Len(v) = 0
    THEN {Failed(BuildError("failed parsing field '%s', must declare type of array item",
                            fieldName, None))}
    ELSE IF Len(v) > 1
    THEN {Failed(BuildError("failed parsing field '%s', can only declare type of array items once",
                            fieldName, None))}
    ELSE {IF item.ok THEN Built(ArrayOf(item.typ, isOptional)) ELSE item :
            item \in parseValueToType(fieldName, v[1], FALSE)}

\* parseValueToType, case map[string]interface{}: the loop over the keys
\* still to visit, nestedStruct holding the fields parsed so far
parseStruct(v, order, nestedStruct, isOptional) ==
    IF order = <<>> THEN {Built(StructOf(nestedStruct, isOptional))}
    ELSE LET k == Head(order)
             nestedIsOptional == HasSuffix(k)
             nestedFieldName == StripSuffix(k)
         IN IF ~isValidFieldName(nestedFieldName)
            THEN {Failed(BuildError("invalid field name: %q", nestedFieldName, None))}
            ELSE UNION { IF nestedType.ok
                         THEN parseStruct(v, Tail(order),
                                          Put(nestedStruct, nestedFieldName, nestedType.typ),
                                          isOptional)
                         ELSE {nestedType} :
                         nestedType \in parseValueToType(nestedFieldName, v[k], nestedIsOptional) }

parseValueToType(fieldName, value, isOptional) ==
    CASE value.t = "string" ->
           IF value.s \in DOMAIN TypeNames
           THEN {Built(Prim(TypeNames[value.s], isOptional))}
           ELSE {Failed(BuildError("failed parsing field '%s', expected type, not: %s",
                                   fieldName, value))}
      [] value.t = "[]interface{}" -> parseArray(fieldName, value.elems, isOptional)
      [] value.t = "map[string]interface{}" ->
           UNION { parseStruct(value.m, order, <<>>, isOptional) :
                     order \in Orders(DOMAIN value.m) }
      [] OTHER -> {Failed(BuildError("failed parsing field '%s', expected type, not: %s",
                                     fieldName, value))}

\* From: the loop over the keys still to visit, structType holding the
\* fields parsed so far
RECURSIVE fromFields(_, _, _)
fromFields(schemaMap, order, structType) ==
    IF order = <<>> THEN {Built(StructOf(structType, FALSE))}
    ELSE LET key == Head(order)
             isOptional == HasSuffix(key)
             fieldName == StripSuffix(key)
         IN IF ~isValidFieldName(fieldName)
            THEN {FailedFrom(BuildError("invalid field name: %q", fieldName, None))}
            ELSE UNION { IF fieldType.ok
                         THEN fromFields(schemaMap, Tail(order),
                                         Put(structType, fieldName, fieldType.typ))
                         ELSE {FailedFrom(fieldType.err)} :
                         fieldType \in parseValueToType(fieldName, schemaMap[key], isOptional) }

\* From: the results the call can return
From(schemaMap) ==
    UNION { fromFields(schemaMap, order, <<>>) : order \in Orders(DOMAIN schemaMap) }

(***************************************************************************)
(* The emitters ToGolang, ToRust and ToTypeScript.  The three walk the     *)
(* schema the same way (generateStructs in golang and rust,                *)
(* generateInterfaces in typescript) and differ in the text they write.    *)
(* The buffer is the sequence of the lines written: a header, and for each *)
(* declaration a "type" line, its "field" lines and an "end" line.  Names  *)
(* are sequences of characters, type tokens sequences of pieces.           *)
(***************************************************************************)
Targets == {"go", "rust", "ts"}

NoEmitError == "nil"

\* unicode.ToUpper and unicode.ToLower
ToUpper(char) ==
    IF \E k \in DOMAIN Lower : Lower[k] = char
    THEN Upper[CHOOSE k \in DOMAIN Lower : Lower[k] = char]
    ELSE char

ToLower(char) ==
    IF IsUpper(char)
    THEN Lower[CHOOSE k \in DOMAIN Upper : Upper[k] = char]
    ELSE char

\* the loop of toCamelCase from character s[k] on
RECURSIVE camelFrom(_, _, _)
camelFrom(s, k, nextUpper) ==
    IF k > Len(s) THEN <<>>
    ELSE IF s[k] \in {"_", "-", " "} THEN camelFrom(s, k + 1, TRUE)
    ELSE IF nextUpper THEN <<ToUpper(s[k])>> \o camelFrom(s, k + 1, FALSE)
    ELSE <<s[k]>> \o camelFrom(s, k + 1, FALSE)

\* a conversion that takes the underscore alone for a separator
RECURSIVE camelUnderscoreFrom(_, _, _)
camelUnderscoreFrom(s, k, nextUpper) ==
    IF k > Len(s) THEN <<>>
    ELSE IF s[k] = "_" THEN camelUnderscoreFrom(s, k + 1, TRUE)
    ELSE IF nextUpper THEN <<ToUpper(s[k])>> \o camelUnderscoreFrom(s, k + 1, FALSE)
    ELSE <<s[k]>> \o camelUnderscoreFrom(s, k + 1, FALSE)

toCamelCaseUnderscore(s) == camelUnderscoreFrom(s, 1, TRUE)

toCamelCase(s) == camelFrom(s, 1, TRUE)

\* the loop of toSnakeCase from character s[k] on
RECURSIVE snakeFrom(_, _)
snakeFrom(s, k) ==
    IF k > Len(s) THEN <<>>
    ELSE (IF IsUpper(s[k])
          THEN (IF k > 1 THEN <<"_">> ELSE <<>>) \o <<ToLower(s[k])>>
          ELSE <<s[k]>>) \o snakeFrom(s, k + 1)

toSnakeCase(s) == snakeFrom(s, 1)

\* what the typeTo...Type functions return: the type token, the name of the
\* nested declaration ("" when none) and the error
Token(typ, nestedStructName) ==
    [typ |-> typ, nested |-> nestedStructName, err |-> NoEmitError]

TokenError(err) == [typ |-> <<>>, nested |-> <<>>, err |-> err]

GoPrimitives ==
    [ Bool |-> "bool", Int |-> "int", Int8 |-> "int8", Int16 |-> "int16",
      Int32 |-> "int32", Int64 |-> "int64", Uint |-> "uint", Uint8 |-> "uint8",
      Uint16 |-> "uint16", Uint32 |-> "uint32", Uint64 |-> "uint64",
      Float32 |-> "float32", Float64 |-> "float64", String |-> "string",
      Bytes |-> "[]byte" ]

RustPrimitives ==
    [ Bool |-> "bool", Int |-> "i32", Int8 |-> "i8", Int16 |-> "i16",
      Int32 |-> "i32", Int64 |-> "i64", Uint |-> "u32", Uint8 |-> "u8",
      Uint16 |-> "u16", Uint32 |-> "u32", Uint64 |-> "u64",
      Float32 |-> "f32", Float64 |-> "f64", String |-> "String",
      Bytes |-> "Vec<u8>" ]

TypeScriptPrimitives ==
    [ Bool |-> "boolean", Int |-> "number", Int8 |-> "number", Int16 |-> "number",
      Int32 |-> "number", Int64 |-> "number", Uint |-> "number", Uint8 |-> "number",
      Uint16 |-> "number", Uint32 |-> "number", Uint64 |-> "number",
      Float32 |-> "number", Float64 |-> "number", String |-> "string",
      Bytes |-> "Uint8Array" ]

RECURSIVE typeToGoType(_, _, _)
\* typeToGoType with the pointer on every optional field
typeToGoTypeEveryOptional(t, parentName, fieldName) ==
    LET r == CASE t.Kind \in DOMAIN GoPrimitives -> Token(<<GoPrimitives[t.Kind]>>, <<>>)
               [] t.Kind = "Array" ->
                    IF "Array" \notin DOMAIN t
                    THEN TokenError("array type with nil Array field")
                    ELSE LET elem == typeToGoType(t.Array, parentName, fieldName)
                         IN IF elem.err # NoEmitError THEN TokenError(elem.err)
                            ELSE Token(<<"[]">> \o elem.typ, elem.nested)
               [] t.Kind = "Struct" ->
                    LET nestedStructName == parentName \o toCamelCase(fieldName)
                    IN Token(nestedStructName, nestedStructName)
               [] OTHER -> TokenError("unexpected type kind: %v")
    IN IF r.err = NoEmitError /\ t.Optional
       THEN Token(<<"*">> \o r.typ, r.nested)
       ELSE r

typeToGoType(t, parentName, fieldName) ==
    LET r == CASE t.Kind \in DOMAIN GoPrimitives -> Token(<<GoPrimitives[t.Kind]>>, <<>>)
               [] t.Kind = "Array" ->
                    IF "Array" \notin DOMAIN t
                    THEN TokenError("array type with nil Array field")
                    ELSE LET elem == typeToGoType(t.Array, parentName, fieldName)
                         IN IF elem.err # NoEmitError THEN TokenError(elem.err)
                            ELSE Token(<<"[]">> \o elem.typ, elem.nested)
               [] t.Kind = "Struct" ->
                    LET nestedStructName == parentName \o toCamelCase(fieldName)
                    IN Token(nestedStructName, nestedStructName)
               [] OTHER -> TokenError("unexpected type kind: %v")
    IN IF r.err = NoEmitError /\ t.Optional /\ t.Kind # "Array" /\ t.Kind # "Bytes"
       THEN Token(<<"*">> \o r.typ, r.nested)
       ELSE r

RECURSIVE typeToRustType(_, _, _)
typeToRustType(t, parentName, fieldName) ==
    LET r == CASE t.Kind \in DOMAIN RustPrimitives -> Token(<<RustPrimitives[t.Kind]>>, <<>>)
               [] t.Kind = "Array" ->
                    IF "Array" \notin DOMAIN t
                    THEN TokenError("array type with nil Array field")
                    ELSE LET elem == typeToRustType(t.Array, parentName, fieldName)
                         IN IF elem.err # NoEmitError THEN TokenError(elem.err)
                            ELSE Token(<<"Vec<">> \o elem.typ \o <<">">>, elem.nested)
               [] t.Kind = "Struct" ->
                    LET nestedStructName == parentName \o toCamelCase(fieldName)
                    IN Token(nestedStructName, nestedStructName)
               [] OTHER -> TokenError("unexpected type kind: %v")
    IN IF r.err = NoEmitError /\ t.Optional
       THEN Token(<<"Option<">> \o r.typ \o <<">">>, r.nested)
       ELSE r

RECURSIVE typeToTypeScriptType(_, _, _)
typeToTypeScriptType(t, parentName, fieldName) ==
    CASE t.Kind \in DOMAIN TypeScriptPrimitives ->
           Token(<<TypeScriptPrimitives[t.Kind]>>, <<>>)
      [] t.Kind = "Array" ->
           IF "Array" \notin DOMAIN t
           THEN TokenError("array type with nil Array field")
           ELSE LET elem == typeToTypeScriptType(t.Array, parentName, fieldName)
                IN IF elem.err # NoEmitError THEN TokenError(elem.err)
                   ELSE Token(elem.typ \o <<"[]">>, elem.nested)
      [] t.Kind = "Struct" ->
           LET nestedStructName == parentName \o toCamelCase(fieldName)
           IN Token(nestedStructName, nestedStructName)
      [] OTHER -> TokenError("unexpected type kind: %v")

\* the call of the target's function in the field loop
typeToType(target, t, parentName, fieldName) ==
    CASE target = "go" -> typeToGoType(t, parentName, fieldName)
      [] target = "rust" -> typeToRustType(t, parentName, fieldName)
      [] OTHER -> typeToTypeScriptType(t, parentName, fieldName)

\* the lines written
HeaderLine == [k |-> "header"]

FooterLine == [k |-> "footer"]

TypeLine(structName) == [k |-> "type", name |-> structName]

EndLine == [k |-> "end"]

\* the field line of the target: the field's name as the target spells it,
\* its type token, and the name given in the json tag or the comment
FieldLine(target, fieldName, fieldType, token) ==
    CASE target = "go" ->
           [k |-> "field", name |-> toCamelCase(fieldName), typ |-> token,
            tag |-> fieldName \o (IF fieldType.Optional THEN <<",omitempty">> ELSE <<>>)]
      [] target = "rust" ->
           [k |-> "field", name |-> toSnakeCase(fieldName), typ |-> token, tag |-> fieldName]
      [] OTHER ->
           [k |-> "field", name |-> fieldName \o (IF fieldType.Optional THEN <<"?">> ELSE <<>>),
            typ |-> token, tag |-> <<>>]

\* &yema.Type{Kind: yema.Struct, Struct: p}, p nil or not
NestedType(holder) ==
    IF "Struct" \in DOMAIN holder THEN StructOf(holder.Struct, FALSE)
    ELSE Prim("Struct", FALSE)

\* what a walk leaves: the buffer, the names generated so far, the error
Walked(buf, generatedStructs, err) ==
    [buf |-> buf, generated |-> generatedStructs, err |-> err]

\* the field loop of generateStructs over the fields still to visit:
\* the buffer, the nested declarations to generate, the error
RECURSIVE generateFields(_, _, _, _, _, _)
generateFields(target, fields, order, structName, buf, nestedStructs) ==
    IF order = <<>> THEN [buf |-> buf, nested |-> nestedStructs, err |-> NoEmitError]
    ELSE LET fieldName == Head(order)
             fieldType == fields[fieldName]
             r == typeToType(target, fieldType, structName, fieldName)
         IN IF r.err # NoEmitError
            THEN [buf |-> buf, nested |-> nestedStructs, err |-> r.err]
            ELSE LET nested ==
                       IF r.nested # <<>> /\ fieldType.Kind = "Struct"
                       THEN Put(nestedStructs, r.nested, NestedType(fieldType))
                       ELSE IF /\ r.nested # <<>> /\ fieldType.Kind = "Array"
                               /\ fieldType.Array.Kind = "Struct"
                       THEN Put(nestedStructs, r.nested, NestedType(fieldType.Array))
                       ELSE nestedStructs
                 IN generateFields(target, fields, Tail(order), structName,
                                   buf \o <<FieldLine(target, fieldName, fieldType, r.typ)>>,
                                   nested)

RECURSIVE generateStructs(_, _, _, _, _)
RECURSIVE generateNested(_, _, _, _, _)

\* a walk that does not look the name up in generatedStructs
\* generateStructs with the nested declarations written before the record's own
generateStructsNestedFirst(target, t, structName, buf, generatedStructs) ==
    IF t.Kind # "Struct"
    THEN {Walked(buf, generatedStructs, "expected Struct type, got %v")}
    ELSE IF structName \in generatedStructs
    THEN {Walked(buf, generatedStructs, NoEmitError)}
    ELSE IF "Struct" \notin DOMAIN t
    THEN {Walked(buf \o <<TypeLine(structName)>>, generatedStructs \cup {structName},
                 "panic: nil pointer dereference")}
    ELSE UNION {
           LET f == generateFields(target, t.Struct, order, structName,
                                   <<TypeLine(structName)>>, <<>>)
           IN IF f.err # NoEmitError
              THEN {Walked(buf \o f.buf, generatedStructs \cup {structName}, f.err)}
              ELSE UNION { { IF w.err # NoEmitError THEN w
                             ELSE Walked(w.buf \o f.buf \o <<EndLine>>, w.generated, NoEmitError) :
                             w \in generateNested(target, f.nested, nestedOrder, buf,
                                                  generatedStructs \cup {structName}) } :
                           nestedOrder \in Orders(DOMAIN f.nested) } :
           order \in Orders(DOMAIN t.Struct) }

generateStructsAgain(target, t, structName, buf, generatedStructs) ==
    IF t.Kind # "Struct"
    THEN {Walked(buf, generatedStructs, "expected Struct type, got %v")}
    ELSE IF "Struct" \notin DOMAIN t
    THEN {Walked(buf \o <<TypeLine(structName)>>, generatedStructs \cup {structName},
                 "panic: nil pointer dereference")}
    ELSE UNION {
           LET f == generateFields(target, t.Struct, order, structName,
                                   buf \o <<TypeLine(structName)>>, <<>>)
           IN IF f.err # NoEmitError
              THEN {Walked(f.buf, generatedStructs \cup {structName}, f.err)}
              ELSE UNION { generateNested(target, f.nested, nestedOrder,
                                          f.buf \o <<EndLine>>,
                                          generatedStructs \cup {structName}) :
                             nestedOrder \in Orders(DOMAIN f.nested) } :
           order \in Orders(DOMAIN t.Struct) }

\* generateStructs (generateInterfaces): the results the call can return
generateStructs(target, t, structName, buf, generatedStructs) ==
    IF t.Kind # "Struct"
    THEN {Walked(buf, generatedStructs, "expected Struct type, got %v")}
    ELSE IF structName \in generatedStructs
    THEN {Walked(buf, generatedStructs, NoEmitError)}
    ELSE IF "Struct" \notin DOMAIN t
    THEN {Walked(buf \o <<TypeLine(structName)>>, generatedStructs \cup {structName},
                 "panic: nil pointer dereference")}
    ELSE UNION {
           LET f == generateFields(target, t.Struct, order, structName,
                                   buf \o <<TypeLine(structName)>>, <<>>)
           IN IF f.err # NoEmitError
              THEN {Walked(f.buf, generatedStructs \cup {structName}, f.err)}
              ELSE UNION { generateNested(target, f.nested, nestedOrder,
                                          f.buf \o <<EndLine>>,
                                          generatedStructs \cup {structName}) :
                             nestedOrder \in Orders(DOMAIN f.nested) } :
           order \in Orders(DOMAIN t.Struct) }

\* the loop of generateStructs over the nested declarations still to generate
generateNested(target, nestedStructs, order, buf, generatedStructs) ==
    IF order = <<>> THEN {Walked(buf, generatedStructs, NoEmitError)}
    ELSE UNION { IF w.err # NoEmitError THEN {w}
                 ELSE generateNested(target, nestedStructs, Tail(order), w.buf, w.generated) :
                 w \in generateStructs(target, nestedStructs[Head(order)], Head(order),
                                       buf, generatedStructs) }

Root == <<"R", "o", "o", "t">>

\* what an emitter returns: the bytes (None: nil) and the error
Emitted(out, err) == [out |-> out, err |-> err]

\* the body shared by ToGolang, ToRust and ToTypeScript
Emit(target, t, rootType, header, footer) ==
    IF t = None THEN {Emitted(None, "nil type provided")}
    ELSE IF t.Kind # "Struct"
    THEN {Emitted(None, "expected root type to be Struct, got %v")}
    ELSE { IF w.err # NoEmitError THEN Emitted(None, w.err)
           ELSE Emitted(w.buf \o footer, NoEmitError) :
           w \in generateStructs(target, t, IF rootType = <<>> THEN Root ELSE rootType,
                                 header, {}) }

ToGolang(t, rootType) == Emit("go", t, rootType, <<HeaderLine>>, <<>>)

ToRust(t, rootType) == Emit("rust", t, rootType, <<HeaderLine>>, <<FooterLine>>)

ToTypeScript(t, rootType) == Emit("ts", t, rootType, <<>>, <<>>)

(***************************************************************************)
(* jsonschema.ToJSONSchema and cue.ToCue.  Both walk the tree depth first  *)
(* and range over the field maps; the document is kept as the tree that is *)
(* marshalled (a JSONSchema struct, a CUE syntax tree).                    *)
(***************************************************************************)
SchemaVersion == "http://json-schema.org/draft-07/schema#"

\* the "type" of a node that is no array and no record, "" for no such kind
JSONType(kind) ==
    CASE kind = "Bool" -> "boolean"
      [] kind \in SignedKinds \cup UnsignedKinds -> "integer"
      [] kind \in FloatKinds -> "number"
      [] kind \in {"String", "Bytes"} -> "string"
      [] OTHER -> ""

\* what typeToJSONSchema leaves: the JSONSchema it filled, the error
Filled(schema, err) == [schema |-> schema, err |-> err]

\* required as ToJSONSchema marshals it: left out when empty
RequiredOf(schema) ==
    IF schema.Required = <<>> THEN [f \in DOMAIN schema \ {"Required"} |-> schema[f]]
    ELSE schema

RECURSIVE typeToJSONSchema(_)
RECURSIVE propertiesOf(_, _, _)

\* one iteration of the field loop of typeToJSONSchema on the object schema
propertyOf(fields, fieldName, schema) ==
    { IF p.err # NoEmitError THEN Filled(schema, p.err)
      ELSE Filled([schema EXCEPT
                     !.Properties = Put(schema.Properties, fieldName, p.schema),
                     !.Required = IF ~fields[fieldName].Optional
                                  THEN Append(schema.Required, fieldName)
                                  ELSE schema.Required],
                  NoEmitError) :
      p \in typeToJSONSchema(fields[fieldName]) }

\* the field loop of typeToJSONSchema over the fields still to visit
propertiesOf(fields, order, schema) ==
    IF order = <<>> THEN {Filled(schema, NoEmitError)}
    ELSE UNION { IF p.err # NoEmitError THEN {p}
                 ELSE propertiesOf(fields, Tail(order), p.schema) :
                 p \in propertyOf(fields, Head(order), schema) }

\* the object schema before its first property
ObjectSchema == [Type |-> "object", Properties |-> <<>>, Required |-> <<>>]

typeToJSONSchema(t) ==
    CASE JSONType(t.Kind) # "" -> {Filled([Type |-> JSONType(t.Kind)], NoEmitError)}
      [] t.Kind = "Array" ->
           IF "Array" \notin DOMAIN t THEN {Filled([Type |-> "array"], NoEmitError)}
           ELSE { IF item.err # NoEmitError THEN Filled([Type |-> "array"], item.err)
                  ELSE Filled([Type |-> "array", Items |-> item.schema], NoEmitError) :
                  item \in typeToJSONSchema(t.Array) }
      [] t.Kind = "Struct" ->
           IF "Struct" \notin DOMAIN t
           THEN {Filled([Type |-> "object"], "struct type with nil Struct field")}
           ELSE UNION { { IF p.err # NoEmitError THEN p
                          ELSE Filled(RequiredOf(p.schema), NoEmitError) :
                          p \in propertiesOf(t.Struct, order, ObjectSchema) } :
                        order \in Orders(DOMAIN t.Struct) }
      [] OTHER -> {Filled(<<>>, "unexpected type kind: %v")}

\* the document of the root: its schema with "$schema"
Document(schema) ==
    [f \in DOMAIN schema \cup {"Schema"} |-> IF f = "Schema" THEN SchemaVersion ELSE schema[f]]

ToJSONSchema(t) ==
    IF t = None THEN {Emitted(None, "nil type provided")}
    ELSE IF t.Kind # "Struct"
    THEN {Emitted(None, "expected root type to be Struct, got %v")}
    ELSE { IF p.err # NoEmitError THEN Emitted(None, p.err)
           ELSE Emitted(Document(p.schema), NoEmitError) :
           p \in typeToJSONSchema(t) }

\* what typeToAstExpr returns: the expression (None: nil), the error
Expr(expr, err) == [expr |-> expr, err |-> err]

\* the identifier of a kind that is no array and no record, "" for no such kind
CueIdent(kind) ==
    CASE kind = "Bool" -> "bool"
      [] kind = "Int" -> "int"
      [] kind = "Int8" -> "int8"
      [] kind = "Int16" -> "int16"
      [] kind = "Int32" -> "int32"
      [] kind = "Int64" -> "int64"
      [] kind = "Uint" -> "uint"
      [] kind = "Uint8" -> "uint8"
      [] kind = "Uint16" -> "uint16"
      [] kind = "Uint32" -> "uint32"
      [] kind = "Uint64" -> "uint64"
      [] kind = "Float32" -> "float32"
      [] kind = "Float64" -> "float64"
      [] kind \in {"String", "Bytes"} -> "string"
      [] OTHER -> ""

RECURSIVE typeToAstExpr(_, _)
RECURSIVE eltsOf(_, _, _)

\* one iteration of the field loop of typeToAstExpr on the struct literal
eltOf(fields, k, elts) ==
    { IF e.err # NoEmitError THEN Expr(None, e.err)
      ELSE Expr(Append(elts, [Label |-> k, Value |-> e.expr,
                              Constraint |-> IF fields[k].Optional THEN "?" ELSE "!"]),
                NoEmitError) :
      e \in typeToAstExpr(fields[k], k) }

\* the field loop of typeToAstExpr over the fields still to visit
eltsOf(fields, order, elts) ==
    IF order = <<>> THEN {Expr(elts, NoEmitError)}
    ELSE UNION { IF e.err # NoEmitError THEN {e}
                 ELSE eltsOf(fields, Tail(order), e.expr) :
                 e \in eltOf(fields, Head(order), elts) }

typeToAstExpr(t, fieldName) ==
    CASE CueIdent(t.Kind) # "" -> {Expr([Ident |-> CueIdent(t.Kind)], NoEmitError)}
      [] t.Kind = "Array" ->
           IF "Array" \notin DOMAIN t THEN {Expr([List |-> <<>>], NoEmitError)}
           ELSE { IF elem.err # NoEmitError THEN Expr(None, elem.err)
                  ELSE Expr([List |-> <<elem.expr>>], NoEmitError) :
                  elem \in typeToAstExpr(t.Array, fieldName) }
      [] t.Kind = "Struct" ->
           IF "Struct" \notin DOMAIN t
           THEN {Expr(None, "struct type with nil Struct field")}
           ELSE UNION { { IF e.err # NoEmitError THEN e
                          ELSE Expr([Elts |-> e.expr], NoEmitError) :
                          e \in eltsOf(t.Struct, order, <<>>) } :
                        order \in Orders(DOMAIN t.Struct) }
      [] OTHER -> {Expr(None, "unexpected type kind: %v for field %s")}

ToCue(t) ==
    IF t = None THEN {Emitted(None, "nil type provided")}
    ELSE IF t.Kind # "Struct"
    THEN {Emitted(None, "expected root type to be Struct, got %v")}
    ELSE { IF e.err # NoEmitError THEN Emitted(None, e.err)
           ELSE Emitted([Decls |-> <<e.expr>>], NoEmitError) :
           e \in typeToAstExpr(t, <<>>) }

(***************************************************************************)
(* The caller.  A caller holds a schema and an instance, calls Validate,   *)
(* and may then change the instance and call Validate again.               *)
(***************************************************************************)
\* validator.Validate(data, schema) as run by some build of the program
CallValidate ==
    /\ pc \in {"ready", "changed"}
    /\ \E go \in Builds : \E errs \in Validate(dat, sch, go) : result' = errs
    /\ pc' = IF pc = "ready" THEN "validated" ELSE "revalidated"
    /\ UNCHANGED <<raw, sch, buildErr, dat, prevData, step, emitted, calls>>

(***************************************************************************)
(* SpecNum: one numeric field v of every numeric kind, holding one value   *)
(* of every dynamic type around every bound of the integer kinds.          *)
(***************************************************************************)
\* how far around each bound the values go
Margin == 1

Widths == {8, 16, 32, 64}

\* the whole numbers within Margin of -2^(n-1), 2^(n-1)-1 and 2^n-1, and around 0
NumPool ==
    LET offs == {Num(d) : d \in (0 - Margin)..Margin} IN
    UNION { {Add(Negate(Pow2(n - 1)), o), Add(Sub(Pow2(n - 1), Num(1)), o),
             Add(Sub(Pow2(n), Num(1)), o), Add(Zero, o)} : n \in Widths, o \in offs }

\* the narrowest Go type of each family that holds n ("" when none does)
SignedTypeFor(n) ==
    CASE Leq(Negate(Pow2(7)), n) /\ Less(n, Pow2(7)) -> "int8"
      [] Leq(Negate(Pow2(15)), n) /\ Less(n, Pow2(15)) -> "int16"
      [] Leq(Negate(Pow2(31)), n) /\ Less(n, Pow2(31)) -> "int32"
      [] Leq(MinInt64, n) /\ Leq(n, MaxInt64) -> "int64"
      [] OTHER -> ""

UnsignedTypeFor(n) ==
    CASE n.neg -> ""
      [] Less(n, Pow2(8)) -> "uint8"
      [] Less(n, Pow2(16)) -> "uint16"
      [] Less(n, Pow2(32)) -> "uint32"
      [] Leq(n, MaxUint64) -> "uint64"
      [] OTHER -> ""

\* a float64 holds every whole number up to 2^53 and the powers of two
IsFloat64(n) ==
    \/ Leq(Negate(Pow2(53)), n) /\ Leq(n, Pow2(53))
    \/ n \in {Pow2(63), Negate(Pow2(63)), Pow2(64), Pow2(65)}

\* the interface{} values that hold the whole number n
ValuesOf(n) ==
    (IF SignedTypeFor(n) # ""
        THEN {Integer(SignedTypeFor(n), n), Integer("int", n)} ELSE {})
    \cup (IF UnsignedTypeFor(n) # ""
        THEN {Integer(UnsignedTypeFor(n), n), Integer("uint", n)} ELSE {})
    \cup (IF IsFloat64(n) THEN {Float("float64", n, FALSE)} ELSE {})
    \cup {JsonNumber("int", n, FALSE), JsonNumber("dec", n, FALSE)}

NumValues ==
    UNION {ValuesOf(n) : n \in NumPool \cup {Pow2(65)}}
    \cup {Float("float64", Zero, TRUE), Float("float64", Num(-1), TRUE),
          Float("float32", Num(1), FALSE), JsonNumber("dec", Zero, TRUE),
          JsonNumber("bad", Zero, FALSE), String("1"), Bool(TRUE), Nil,
          Slice(<<>>), Map(<<>>)}

NumKinds == SignedKinds \cup UnsignedKinds \cup FloatKinds

V == <<"v">>

InitNum ==
    /\ raw = None /\ buildErr = NoBuildError /\ result = <<>>
    /\ prevData = None /\ step = None /\ emitted = None /\ calls = <<>>
    /\ pc = "ready"
    /\ \E kind \in NumKinds, optional \in BOOLEAN :
         sch = StructOf([f \in {V} |-> Prim(kind, optional)], FALSE)
    /\ \E value \in NumValues : dat = [f \in {V} |-> value]

NextNum == CallValidate

SpecNum == InitNum /\ [][NextNum]_vars

(***************************************************************************)
(* Properties of the integer kinds, checked under SpecNum.                 *)
(***************************************************************************)
FieldKind == sch.Struct[V].Kind

FieldValue == dat[V]

Bits(kind) ==
    CASE kind \in {"Int8", "Uint8"} -> 8
      [] kind \in {"Int16", "Uint16"} -> 16
      [] kind \in {"Int32", "Uint32"} -> 32
      [] OTHER -> 64

RangeMsg(kind) ==
    CASE kind = "Int8" -> "field '%s' value out of range for int8"
      [] kind = "Int16" -> "field '%s' value out of range for int16"
      [] kind = "Int32" -> "field '%s' value out of range for int32"
      [] kind = "Uint8" -> "field '%s' value out of range for uint8"
      [] kind = "Uint16" -> "field '%s' value out of range for uint16"
      [] kind = "Uint32" -> "field '%s' value out of range for uint32"
      [] kind = "Float32" -> "field '%s' value out of range for float32"
      [] OTHER -> "no range error of this kind"

RangeMsgs == {RangeMsg(kind) : kind \in Kinds}

\* a whole number held as a Go signed integer, a float64 or a json.Number
\* integer literal
IsWholeSigned(value) ==
    \/ value.t \in GoSigned
    \/ value.t = "float64" /\ ~value.half
    \/ value.t = "json.Number" /\ value.syn = "int"

\* the same, or held as a Go unsigned integer
IsWhole(value) == IsWholeSigned(value) \/ value.t \in GoUnsigned

\* C3: for int8, int16 and int32 (n bits) a whole number v is accepted exactly
\* when -2^(n-1) <= v <= 2^(n-1)-1, and 2^(n-1) and -2^(n-1)-1 are rejected
\* with the kind's range error; an int64 or int field never gets a range error.
C3_SignedRange ==
    pc = "validated" =>
      /\ (FieldKind \in {"Int8", "Int16", "Int32"} /\ IsWholeSigned(FieldValue)) =>
           LET v == FieldValue.n
               lo == Negate(Pow2(Bits(FieldKind) - 1))
               hi == Sub(Pow2(Bits(FieldKind) - 1), Num(1))
               rangeError == <<Errorf(RangeMsg(FieldKind), V)>>
           IN /\ (result = <<>>) <=> (Leq(lo, v) /\ Leq(v, hi))
              /\ (v = Add(hi, Num(1)) \/ v = Sub(lo, Num(1))) => result = rangeError
      /\ FieldKind \in {"Int64", "Int"} =>
           \A k \in DOMAIN result : result[k].msg \notin RangeMsgs

\* int32 field, int value 2^31: one range error
C3_Witness ==
    /\ pc = "validated" /\ FieldKind = "Int32"
    /\ FieldValue = Integer("int", Pow2(31))
    /\ result = <<Errorf(RangeMsg("Int32"), V)>>

\* C4: for uint8, uint16 and uint32 (n bits) a whole number v is accepted
\* exactly when 0 <= v <= 2^n-1 and a larger one is rejected with the kind's
\* range error; uint64 and uint accept every whole number a uint64 holds; a
\* negative whole number is rejected as not a non-negative integer.
C4_UnsignedRange ==
    (pc = "validated" /\ FieldKind \in UnsignedKinds /\ IsWhole(FieldValue)) =>
      LET v == FieldValue.n
          hi == Sub(Pow2(Bits(FieldKind)), Num(1))
          rangeError == <<Errorf(RangeMsg(FieldKind), V)>>
          notUnsigned == <<Errorf("field '%s' must be a non-negative integer", V)>>
      IN /\ (result = <<>>) <=> (Leq(Zero, v) /\ Leq(v, hi))
         /\ (FieldKind \in {"Uint8", "Uint16", "Uint32"} /\ Less(hi, v))
               => result = rangeError
         /\ v.neg => result = notUnsigned

\* a whole number in any numeric representation: a Go integer of either
\* family, a float with no fraction, a json.Number with no fraction
IsWholeNumber(value) ==
    \/ value.t \in GoSigned \cup GoUnsigned
    \/ value.t \in {"float32", "float64"} /\ ~value.half
    \/ value.t = "json.Number" /\ value.syn \in {"int", "dec"} /\ ~value.half

\* C20: for a field of a signed integer kind a whole number, in whatever
\* numeric representation, is not rejected as a non-integer (it is accepted,
\* or rejected with the range error of the field's kind), and every other
\* value but null is rejected with exactly "must be an integer".
C20_AnyRepresentation ==
    (pc = "validated" /\ FieldKind \in SignedKinds /\ FieldValue # Nil) =>
        IF IsWholeNumber(FieldValue)
        THEN result = <<>> \/ result = <<Errorf(RangeMsg(FieldKind), V)>>
        ELSE result = <<Errorf("field '%s' must be an integer", V)>>

(***************************************************************************)
(* Spec: schemas of one or two root fields (primitives, nested records,    *)
(* arrays of primitives and of records) with instances whose values are    *)
(* right, wrong, null or absent at every level.                            *)
(***************************************************************************)
A == <<"a">>

B == <<"b">>

X == <<"x">>

\* the longest array of an instance
MaxLen == 2

\* the nested records
Rec1 == [f \in {A, B} |-> IF f = A THEN Prim("String", FALSE) ELSE Prim("Int8", FALSE)]

Rec2 == [f \in {A, B} |-> IF f = A THEN Prim("String", FALSE) ELSE Prim("String", TRUE)]

\* the types of a root field
RootTypes ==
    {Prim(kind, optional) : kind \in {"String", "Int8"}, optional \in BOOLEAN}
    \cup {StructOf(Rec1, optional) : optional \in BOOLEAN}
    \cup {StructOf(Rec2, FALSE)}
    \cup {ArrayOf(Prim("String", FALSE), optional) : optional \in BOOLEAN}
    \cup {ArrayOf(StructOf(Rec1, FALSE), FALSE)}

\* the other kinds, as optional fields of a one-field schema
MoreTypes == {Prim(kind, TRUE) : kind \in Kinds \ {"String", "Int8", "Array", "Struct"}}

\* the types of the second root field of a two-field schema
SideTypes == {Prim("Int8", FALSE), Prim("String", TRUE), StructOf(Rec1, FALSE)}

Schemas ==
    {StructOf(fields, FALSE) :
       fields \in {fs \in [{A, B} -> RootTypes] : fs[B] \in SideTypes}}
    \cup {StructOf(fields, FALSE) : fields \in [{A} -> RootTypes \cup MoreTypes]}

\* every map that gives each key of choices either no entry or one of its values
MapsOver(choices) ==
    UNION { [keys -> UNION {choices[k] : k \in keys}] : keys \in SUBSET DOMAIN choices }

MapsOf(choices) ==
    {m \in MapsOver(choices) : \A k \in DOMAIN m : m[k] \in choices[k]}

\* every sequence of at most MaxLen values of pool
SeqsOf(pool) == UNION { [1..n -> pool] : n \in 0..MaxLen }

\* a value of the kind, and one that is not
Sample(kind) ==
    CASE kind = "Bool" -> {Bool(TRUE), String("s")}
      [] kind = "String" -> {String("s"), Integer("int", Num(5))}
      [] kind = "Bytes" -> {Bytes, String("s"), Integer("int", Num(5))}
      [] kind = "Int8" -> {Integer("int", Num(5)), Integer("int", Num(200)), String("s")}
      [] kind \in SignedKinds \cup UnsignedKinds -> {Integer("int", Num(5)), String("s")}
      [] OTHER -> {Float("float64", Num(5), TRUE), String("s")}

\* the records tried as array elements: right, b missing, a and b wrong
ElemMaps ==
    { Map([f \in {A, B} |-> IF f = A THEN String("s") ELSE Integer("int", Num(5))]),
      Map([f \in {A} |-> String("s")]),
      Map([f \in {A, B} |-> IF f = A THEN Integer("int", Num(5)) ELSE String("s")]) }

\* the values tried for a field of type typ (besides leaving the key out)
ValuesFor(typ) ==
    {Nil} \cup
    CASE typ.Kind = "Struct" ->
           {String("s")} \cup
           {Map(m) : m \in MapsOf([f \in DOMAIN typ.Struct |->
                                     {Nil} \cup Sample(typ.Struct[f].Kind)])}
      [] typ.Kind = "Array" ->
           {String("s")} \cup
           {Slice(elems) : elems \in SeqsOf(IF typ.Array.Kind = "Struct"
                                             THEN ElemMaps
                                             ELSE {Nil} \cup Sample(typ.Array.Kind))}
      [] OTHER -> Sample(typ.Kind)

Instances(schema) ==
    MapsOf([f \in DOMAIN schema.Struct |-> ValuesFor(schema.Struct[f])])

Init ==
    /\ raw = None /\ buildErr = NoBuildError /\ result = <<>>
    /\ prevData = None /\ step = None /\ emitted = None /\ calls = <<>>
    /\ pc = "ready"
    /\ sch \in Schemas
    /\ dat \in Instances(sch)

(***************************************************************************)
(* Places in an instance: a location is a sequence of field and index      *)
(* steps from the root map.                                                *)
(***************************************************************************)
FieldStep(name) == [f |-> name]

IndexStep(k) == [i |-> k]

IsFieldStep(st) == "f" \in DOMAIN st

IsRecordType(typ) == typ.Kind = "Struct" /\ "Struct" \in DOMAIN typ

IsMap(value) == value.t = "map[string]interface{}"

IsSlice(value) == value.t = "[]interface{}"

\* the path string the validator builds for a location
RECURSIVE PathFrom(_, _)
PathFrom(path, loc) ==
    IF loc = <<>> THEN path
    ELSE LET st == Head(loc)
             next == IF IsFieldStep(st)
                     THEN (IF path = <<>> THEN st.f ELSE path \o <<".">> \o st.f)
                     ELSE path \o <<"[">> \o Itoa(st.i - 1) \o <<"]">>
         IN PathFrom(next, Tail(loc))

PathOf(loc) == PathFrom(<<>>, loc)

RECURSIVE ValueAt(_, _)
ValueAt(value, loc) ==
    IF loc = <<>> THEN value
    ELSE IF IsFieldStep(Head(loc)) THEN ValueAt(value.m[Head(loc).f], Tail(loc))
    ELSE ValueAt(value.elems[Head(loc).i], Tail(loc))

RECURSIVE TypeAt(_, _)
TypeAt(typ, loc) ==
    IF loc = <<>> THEN typ
    ELSE IF IsFieldStep(Head(loc)) THEN TypeAt(typ.Struct[Head(loc).f], Tail(loc))
    ELSE TypeAt(typ.Array, Tail(loc))

RECURSIVE Replace(_, _, _)
Replace(value, loc, new) ==
    IF loc = <<>> THEN new
    ELSE IF IsFieldStep(Head(loc))
    THEN Map([value.m EXCEPT ![Head(loc).f] = Replace(@, Tail(loc), new)])
    ELSE Slice([value.elems EXCEPT ![Head(loc).i] = Replace(@, Tail(loc), new)])

\* the locations of the maps of an instance that stand where the schema has a record
RECURSIVE RecordLocs(_, _)
RecordLocs(value, typ) ==
    IF IsRecordType(typ) /\ IsMap(value)
    THEN {<<>>} \cup
         UNION { {<<FieldStep(f)>> \o l : l \in RecordLocs(value.m[f], typ.Struct[f])} :
                   f \in DOMAIN typ.Struct \cap DOMAIN value.m }
    ELSE IF typ.Kind = "Array" /\ "Array" \in DOMAIN typ /\ IsSlice(value)
    THEN UNION { {<<IndexStep(k)>> \o l : l \in RecordLocs(value.elems[k], typ.Array)} :
                   k \in DOMAIN value.elems }
    ELSE {}

\* the locations of the required fields that an instance holds
RequiredLocs(value, typ) ==
    UNION { {rl \o <<FieldStep(f)>> :
               f \in {g \in DOMAIN TypeAt(typ, rl).Struct \cap DOMAIN ValueAt(value, rl).m :
                        ~TypeAt(typ, rl).Struct[g].Optional}} :
            rl \in RecordLocs(value, typ) }

Front(loc) == SubSeq(loc, 1, Len(loc) - 1)

Last(loc) == loc[Len(loc)]

\* the instance without the field at loc
RemoveField(dataMap, loc) ==
    LET parent == ValueAt(Map(dataMap), Front(loc))
        less == [k \in DOMAIN parent.m \ {Last(loc).f} |-> parent.m[k]]
    IN Replace(Map(dataMap), Front(loc), Map(less)).m

\* the instance with one more key in the map at loc
AddKey(dataMap, loc, key, value) ==
    LET parent == ValueAt(Map(dataMap), loc)
        more == [k \in DOMAIN parent.m \cup {key} |-> IF k = key THEN value ELSE parent.m[k]]
    IN Replace(Map(dataMap), loc, Map(more)).m

AllKeys == {A, B, X}

\* the values given to an added key
ExtraValues == {Nil, Map([f \in {A} |-> Integer("int", Num(200))])}

\* the caller drops one required field from an instance found valid
DropRequiredField ==
    /\ pc = "validated"
    /\ result = <<>>
    /\ \E loc \in RequiredLocs(Map(dat), sch) :
         /\ dat' = RemoveField(dat, loc)
         /\ step' = [op |-> "drop", loc |-> loc]
    /\ prevData' = dat
    /\ result' = <<>>
    /\ pc' = "changed"
    /\ UNCHANGED <<raw, sch, buildErr, emitted, calls>>

\* the caller adds a key the schema record does not name, at the root or in
\* a nested record
AddUnknownKey ==
    /\ pc = "validated"
    /\ \E loc \in RecordLocs(Map(dat), sch) :
         \E key \in AllKeys \ (DOMAIN TypeAt(sch, loc).Struct \cup DOMAIN ValueAt(Map(dat), loc).m) :
           \E value \in ExtraValues :
             /\ dat' = AddKey(dat, loc, key, value)
             /\ step' = [op |-> "add", loc |-> loc \o <<FieldStep(key)>>]
    /\ prevData' = dat
    /\ result' = <<>>
    /\ pc' = "changed"
    /\ UNCHANGED <<raw, sch, buildErr, emitted, calls>>

Next == CallValidate \/ DropRequiredField \/ AddUnknownKey

Spec == Init /\ [][Next]_vars

(***************************************************************************)
(* What the schema asks of an instance, stated without the validator.      *)
(***************************************************************************)
\* n lies in the range of the integer kind
InRangeOf(kind, n) ==
    IF kind \in SignedKinds
    THEN Leq(Negate(Pow2(Bits(kind) - 1)), n) /\ Less(n, Pow2(Bits(kind) - 1))
    ELSE Leq(Zero, n) /\ Less(n, Pow2(Bits(kind)))

\* value is a Go value of the primitive kind, within the kind's range
HasKind(value, kind) ==
    CASE kind = "Bool" -> value.t = "bool"
      [] kind = "String" -> value.t = "string"
      [] kind = "Bytes" -> value.t \in {"[]byte", "string"}
      [] kind \in SignedKinds -> value.t \in GoSigned /\ InRangeOf(kind, value.n)
      [] kind \in UnsignedKinds ->
           value.t \in GoSigned \cup GoUnsigned /\ InRangeOf(kind, value.n)
      [] kind \in FloatKinds ->
           /\ value.t \in {"float32", "float64"}
           /\ kind = "Float32" =>
                Less(Negate(Float32Bound), value.n) /\ Less(value.n, Float32Bound)
      [] OTHER -> FALSE

RECURSIVE Conforms(_, _, _)
RECURSIVE FieldConforms(_, _, _, _)

\* value has the shape of typ.  With all, every field that is present with a
\* non-null value must conform; without it, only the required fields are looked at.
Conforms(value, typ, all) ==
    CASE typ.Kind = "Struct" ->
           /\ IsMap(value)
           /\ \A f \in DOMAIN typ.Struct : FieldConforms(value.m, f, typ.Struct[f], all)
      [] typ.Kind = "Array" ->
           /\ IsSlice(value)
           /\ \A k \in DOMAIN value.elems :
                \/ value.elems[k] = Nil /\ typ.Array.Optional
                \/ Conforms(value.elems[k], typ.Array, all)
      [] OTHER -> HasKind(value, typ.Kind)

FieldConforms(m, f, ftyp, all) ==
    IF ftyp.Optional
    THEN all => (f \notin DOMAIN m \/ m[f] = Nil \/ Conforms(m[f], ftyp, all))
    ELSE f \in DOMAIN m /\ Conforms(m[f], ftyp, all)

\* the root fields whose value is missing though required, or fails the schema
FailingFields(m, fields) == {f \in DOMAIN fields : ~FieldConforms(m, f, fields[f], TRUE)}

\* the root field an error path starts with
RECURSIVE RootField(_)
RootField(path) ==
    IF path = <<>> \/ Head(path) \in {".", "["} THEN <<>>
    ELSE <<Head(path)>> \o RootField(Tail(path))

\* path is the path of the place at prefix or of a place below it
Under(path, prefix) ==
    /\ Len(prefix) <= Len(path)
    /\ SubSeq(path, 1, Len(prefix)) = prefix
    /\ Len(path) > Len(prefix) => path[Len(prefix) + 1] \in {".", "["}

\* the positions in the returned list of the errors at or below a place
ErrorsUnder(prefix) == {k \in DOMAIN result : Under(result[k].path, prefix)}

Missing(path) == Errorf("required field '%s' is missing", path)

NilNotOptional(path) == Errorf("field '%s' is nil but not optional", path)

(***************************************************************************)
(* Properties of Validate, checked under Spec.                             *)
(***************************************************************************)
\* C1 (as amended): when every required field is present, at every level, and
\* every field that is present with a non-null value, required or optional,
\* has a value of its kind within its range, Validate returns the empty list.
C1_ValidAccepted ==
    (pc = "validated" /\ Conforms(Map(dat), sch, TRUE)) => result = <<>>

\* C1 as claimed: the same with the required fields alone constrained.
C1_RequiredOnly ==
    (pc = "validated" /\ Conforms(Map(dat), sch, FALSE)) => result = <<>>

\* a valid instance with an array of two records and an optional field given
C1_Witness ==
    /\ pc = "validated" /\ result = <<>>
    /\ Conforms(Map(dat), sch, TRUE)
    /\ sch.Struct[A] = ArrayOf(StructOf(Rec1, FALSE), FALSE)
    /\ Len(dat[A].elems) = 2
    /\ B \in DOMAIN sch.Struct /\ sch.Struct[B].Optional
    /\ B \in DOMAIN dat /\ dat[B] # Nil

\* C2: dropping one required field (root, nested record, record in an array)
\* from an instance that validated with no violation makes Validate return
\* exactly one violation: required field missing, at that field's path.
C2_DropRequired ==
    (/\ pc = "revalidated" /\ step.op = "drop"
     /\ \A go \in Builds : Validate(prevData, sch, go) = {<<>>})
        => result = <<Missing(PathOf(step.loc))>>

\* the field b of the second record of the array a was dropped
C2_Witness ==
    /\ pc = "revalidated" /\ step.op = "drop"
    /\ step.loc = <<FieldStep(A), IndexStep(2), FieldStep(B)>>
    /\ result = <<Missing(<<"a", "[", "1", "]", ".", "b">>)>>

\* C5: a key that the schema record does not name, added at the root or in a
\* nested record with any value, leaves what Validate returns unchanged.
C5_UnknownKeyIgnored ==
    (pc = "changed" /\ step.op = "add") =>
        \A go \in Builds : Validate(dat, sch, go) = Validate(prevData, sch, go)

\* a key added inside a nested record of an instance with violations
C5_Witness ==
    /\ pc = "revalidated" /\ step.op = "add"
    /\ Len(step.loc) = 2
    /\ result # <<>>
    /\ \E go \in Builds : result \in Validate(prevData, sch, go)

\* C6: the returned list holds exactly one violation for each failing root
\* field and none for the others, however many violations a field's nested
\* record or array holds.
C6_OnePerFailingField ==
    pc = "validated" =>
        LET failing == FailingFields(dat, sch.Struct) IN
        /\ Len(result) = Cardinality(failing)
        /\ \A f \in failing :
             Cardinality({k \in DOMAIN result : RootField(result[k].path) = f}) = 1

\* both root fields fail, the first one with two violations in its record
C6_Witness ==
    /\ pc = "validated" /\ Len(result) = 2
    /\ sch.Struct[A] = StructOf(Rec1, FALSE)
    /\ A \in DOMAIN dat
    /\ dat[A] = Map([f \in {A, B} |-> IF f = A THEN Integer("int", Num(5))
                                                ELSE String("s")])

\* the violating fields of the record at location rl of the instance
FailingAt(rl) == FailingFields(ValueAt(Map(dat), rl).m, TypeAt(sch, rl).Struct)

OptionalRule(m, f, ftyp, path, got) ==
    LET absent == f \notin DOMAIN m
        null == f \in DOMAIN m /\ m[f] = Nil
    IN /\ (ftyp.Optional /\ (absent \/ null)) => got = <<>>
       /\ (~ftyp.Optional /\ null) => got = <<NilNotOptional(path)>>
       /\ (~ftyp.Optional /\ absent) => got = <<Missing(path)>>

\* the violations of the list at or below a root field
ErrorsOf(f) == SelectSeq(result, LAMBDA e : RootField(e.path) = f)

\* C8: an optional field of any kind yields no violation when its key is absent
\* or holds null; a required field yields exactly one violation, nil but not
\* optional when it holds null and required field missing when it is absent.
\* This holds of the root fields, and of the fields of a nested record whose
\* other fields conform.
C8_OptionalRule ==
    pc = "validated" =>
        /\ \A f \in DOMAIN sch.Struct :
             OptionalRule(dat, f, sch.Struct[f], f, ErrorsOf(f))
        /\ \A g \in DOMAIN sch.Struct :
             (IsRecordType(sch.Struct[g]) /\ g \in DOMAIN dat /\ IsMap(dat[g])) =>
                \A h \in DOMAIN sch.Struct[g].Struct :
                    (\A o \in DOMAIN sch.Struct[g].Struct \ {h} :
                        FieldConforms(dat[g].m, o, sch.Struct[g].Struct[o], TRUE))
                    => OptionalRule(dat[g].m, h, sch.Struct[g].Struct[h],
                                    g \o <<".">> \o h, ErrorsOf(g))

\* a nested optional field holding null beside a required root field holding null
C8_Witness ==
    /\ pc = "validated"
    /\ sch.Struct[A] = StructOf(Rec2, FALSE)
    /\ A \in DOMAIN dat /\ dat[A] = Map([f \in {A, B} |-> IF f = A THEN String("s") ELSE Nil])
    /\ B \in DOMAIN sch.Struct /\ ~sch.Struct[B].Optional
    /\ B \in DOMAIN dat /\ dat[B] = Nil
    /\ result = <<NilNotOptional(B)>>


\* the set of the violations of a list
Violations(errs) == {errs[k] : k \in DOMAIN errs}

\* C13: every run of Validate on the same instance and schema returns the
\* same set of violations, whatever order the field maps are iterated in.
C13_ValidateDeterministic ==
    pc = "validated" =>
        \A go \in Builds : \A errs \in Validate(dat, sch, go) :
            Violations(errs) = Violations(result)

\* the indices of the elements of the sequence that fail the element type
InvalidElems(elems, elemType) ==
    {i \in DOMAIN elems :
       ~(\/ elems[i] = Nil /\ elemType.Optional
         \/ Conforms(elems[i], elemType, TRUE))}

\* the least of a set of indices
Lowest(S) == CHOOSE i \in S : \A j \in S : i <= j

\* the path of element i (Go's index i - 1) of the array at path
ElemPath(path, i) == path \o <<"[">> \o Itoa(i - 1) \o <<"]">>

\* the paths a violation of the element at elemPath can have
ElemPaths(elemPath, elem, elemType) ==
    {elemPath} \cup
    (IF IsRecordType(elemType) /\ IsMap(elem)
     THEN {elemPath \o <<".">> \o name : name \in DOMAIN elemType.Struct}
     ELSE {})

\* C19: for a root array field whose value is a sequence with invalid
\* elements, the list holds exactly one violation at or below the field: one
\* of the invalid element with the lowest index i, with the path field[i] or
\* field[i].name, and the one Validate returns when the sequence ends at
\* element i (the later elements are not looked at).  For a value that is no
\* sequence it holds exactly "must be an array" with the field's path.
C19_FirstFailingElement ==
    pc = "validated" =>
        \A f \in DOMAIN sch.Struct :
            LET typ == sch.Struct[f] IN
            (typ.Kind = "Array" /\ f \in DOMAIN dat /\ dat[f] # Nil) =>
                IF ~IsSlice(dat[f])
                THEN \E k \in DOMAIN result :
                        /\ ErrorsUnder(f) = {k}
                        /\ result[k] = Errorf("field '%s' must be an array", f)
                ELSE LET elems == dat[f].elems
                         invalid == InvalidElems(elems, typ.Array)
                     IN invalid # {} =>
                          LET i == Lowest(invalid) IN
                          \E k \in DOMAIN result :
                             /\ ErrorsUnder(f) = {k}
                             /\ result[k].path \in ElemPaths(ElemPath(f, i), elems[i], typ.Array)
                             /\ \E go \in Builds :
                                  result[k] \in validateValue(Slice(SubSeq(elems, 1, i)),
                                                              typ, f, go)

\* two elements fail, each with two violations in its record, and the list
\* holds one violation, of the first
C19_Witness ==
    /\ pc = "validated"
    /\ sch.Struct[A] = ArrayOf(StructOf(Rec1, FALSE), FALSE)
    /\ A \in DOMAIN dat /\ IsSlice(dat[A]) /\ Len(dat[A].elems) = 2
    /\ InvalidElems(dat[A].elems, sch.Struct[A].Array) = {1, 2}
    /\ \E k \in DOMAIN result :
         /\ ErrorsUnder(A) = {k}
         /\ result[k].path = <<"a", "[", "0", "]", ".", "b">>

(***************************************************************************)
(* The schema builder's inputs: trees of maps, sequences and strings, with *)
(* keys that end in "?" or not, that are legal names or not, and that      *)
(* name the same field after the "?" is cut; sequences of every length up  *)
(* to MaxItems, nested in maps and in sequences.                           *)
(***************************************************************************)
\* the longest sequence of a schema tree
MaxItems == 2

AOpt == <<"a", "?">>

RootKeys ==
    {A, AOpt, B, <<"b", "?">>, <<"_", "1">>, <<"?">>, <<"a", "?", "?">>,
     <<"1", "a">>, <<"a", "-", "b">>}

InnerKeys == {A, AOpt, <<"1">>}

\* a type name, a type name of another language, a string that is no type
\* name, and a value that is no string
RawScalars ==
    {String("string"), String("int8"), String("text"), Integer("int", Num(5))}

RawInner == {String("string"), String("text")}

\* every sequence of at most MaxItems values of pool
RawSeqs(pool) == {Slice(elems) : elems \in UNION { [1..n -> pool] : n \in 0..MaxItems }}

InnerMaps == {Map(m) : m \in MapsOf([k \in InnerKeys |-> RawInner])}

\* maps in maps
DeepMaps ==
    {Map([k \in {key} |-> v]) : key \in {X, <<"x", "?">>}, v \in InnerMaps}

\* the values nested in the sequences of sequences
NestedItems ==
    {Slice(<<>>), Slice(<<String("string")>>),
     Map([k \in {AOpt} |-> String("string")]), Map([k \in {<<"1">>} |-> String("string")])}

RawValues ==
    RawScalars \cup RawSeqs(RawInner) \cup InnerMaps \cup DeepMaps \cup RawSeqs(NestedItems)

SideKeys == {A, <<"b", "?">>}

SideValues == {String("int8"), String("text"), Slice(<<>>), Slice(<<String("string")>>)}

\* every type name, names in another case, of no kind, empty, and the
\* values that are no string, no sequence and no map
NamedScalars ==
    {String(name) : name \in DOMAIN TypeNames \cup {"String", "INT8", "array", ""}}
    \cup {Integer("int", Num(5)), Float("float64", Num(5), TRUE), Bool(TRUE), Nil}

\* a scalar under a key, in a map and in a sequence
ScalarTrees ==
    {[k \in {key} |-> v] : key \in {A, AOpt}, v \in NamedScalars}
    \cup {[k \in {A} |-> Map([k2 \in {AOpt} |-> v])] : v \in NamedScalars}
    \cup {[k \in {A} |-> Slice(<<v>>)] : v \in NamedScalars}

\* a record, or a sequence of records, under a key made of an underscore only
UnderscoreTrees ==
    LET leaf == Map([k \in {A} |-> String("string")]) IN
    {[k \in {key} |-> v] :
        key \in {<<"_">>, <<"_", "?">>},
        v \in {leaf, Slice(<<leaf>>), Map([k \in {<<"_">>} |-> leaf])}}

RawTrees ==
    ScalarTrees \cup UnderscoreTrees \cup
    {[k \in {key} |-> v] : key \in RootKeys, v \in RawValues}
    \cup {[k \in {key, side} |-> IF k = key THEN v ELSE w] :
            key \in RootKeys, v \in RawValues, side \in SideKeys, w \in SideValues}
    \cup {<<>>}

InitBuild ==
    /\ raw \in RawTrees
    /\ sch = None /\ buildErr = NoBuildError
    /\ dat = None /\ result = <<>> /\ prevData = None /\ step = None
    /\ emitted = None /\ calls = <<>>
    /\ pc = "raw"

\* schema, err := parser.From(raw)
CallFrom ==
    /\ pc = "raw"
    /\ \E out \in From(raw) :
         /\ sch' = out.typ
         /\ buildErr' = out.err
         /\ pc' = IF out.err = NoBuildError THEN "built" ELSE "failed"
    /\ UNCHANGED <<raw, dat, result, prevData, step, emitted, calls>>

NextBuild == CallFrom

SpecBuild == InitBuild /\ [][NextBuild]_vars

(***************************************************************************)
(* The declarative side of the builder's claims.                           *)
(***************************************************************************)
\* the keys of a map, each with its field in the record built from the map:
\* the right name, the right optional flag, and nothing else in the record
RECURSIVE KeysRule(_, _)
KeysRule(value, typ) ==
    IF IsMap(value)
    THEN /\ IsRecordType(typ)
         /\ \A key \in DOMAIN value.m :
              /\ StripSuffix(key) \in DOMAIN typ.Struct
              /\ typ.Struct[StripSuffix(key)].Optional = HasSuffix(key)
              /\ KeysRule(value.m[key], typ.Struct[StripSuffix(key)])
         /\ Cardinality(DOMAIN typ.Struct) = Cardinality(DOMAIN value.m)
    ELSE IF IsSlice(value)
    THEN /\ typ.Kind = "Array" /\ "Array" \in DOMAIN typ
         /\ Len(value.elems) = 1
         /\ KeysRule(value.elems[1], typ.Array)
    ELSE TRUE

\* C9: when the build succeeds, at every nesting level every key has its
\* field in the record (the key without one trailing "?", optional exactly
\* when the key ends in "?") and the record has one field per key.
C9_OneFieldPerKey == pc = "built" => KeysRule(Map(raw), sch)

\* the sequences of a tree, each with the field name it is parsed under
RECURSIVE SeqsIn(_, _)
SeqsIn(fieldName, value) ==
    IF IsSlice(value)
    THEN {<<fieldName, value.elems>>}
         \cup UNION {SeqsIn(fieldName, value.elems[k]) : k \in DOMAIN value.elems}
    ELSE IF IsMap(value)
    THEN UNION {SeqsIn(StripSuffix(key), value.m[key]) : key \in DOMAIN value.m}
    ELSE {}

MissingItem(fieldName) ==
    BuildError("failed parsing field '%s', must declare type of array item", fieldName, None)

Ambiguous(fieldName) ==
    BuildError("failed parsing field '%s', can only declare type of array items once",
               fieldName, None)

\* what is wrong in a tree, as the error that reports it; nothing below a
\* sequence of the wrong length or a key of the wrong form is looked at
RECURSIVE Defects(_, _)
Defects(fieldName, value) ==
    IF IsSlice(value)
    THEN IF Len(value.elems) = 0 THEN {MissingItem(fieldName)}
         ELSE IF Len(value.elems) > 1 THEN {Ambiguous(fieldName)}
         ELSE Defects(fieldName, value.elems[1])
    ELSE IF IsMap(value)
    THEN UNION { IF isValidFieldName(StripSuffix(key))
                 THEN Defects(StripSuffix(key), value.m[key])
                 ELSE {BuildError("invalid field name: %q", StripSuffix(key), None)} :
                 key \in DOMAIN value.m }
    ELSE IF value.t = "string" /\ value.s \in DOMAIN TypeNames THEN {}
    ELSE {BuildError("failed parsing field '%s', expected type, not: %s", fieldName, value)}

ArityDefects(value) ==
    {d \in Defects(<<>>, value) : d \in {MissingItem(d.field), Ambiguous(d.field)}}

\* C10: a sequence parses to an array node only when it has exactly one
\* element (the node's element type is that element's type); a sequence of
\* no element fails with the missing-item error and one of two or more with
\* the ambiguous-item error, under the field's name, at any depth, in a map
\* or in a sequence.  So a build that succeeds met no sequence of another
\* length, and a build of a tree whose only defects are such sequences
\* fails with the error of one of them.
C10_ArrayArity ==
    /\ \A p \in SeqsIn(<<>>, Map(raw)) : \A isOptional \in BOOLEAN :
         LET fieldName == p[1]
             v == p[2]
             out == parseValueToType(fieldName, Slice(v), isOptional)
         IN /\ Len(v) = 0 => out = {Failed(MissingItem(fieldName))}
            /\ Len(v) > 1 => out = {Failed(Ambiguous(fieldName))}
            /\ Len(v) = 1 =>
                 /\ \A r \in out : r.ok =>
                      /\ r.typ.Kind = "Array" /\ "Array" \in DOMAIN r.typ
                      /\ r.typ.Optional = isOptional
                      /\ Built(r.typ.Array) \in parseValueToType(fieldName, v[1], FALSE)
                 /\ \A r \in out : ~r.ok => r \in parseValueToType(fieldName, v[1], FALSE)
    /\ pc = "built" => \A p \in SeqsIn(<<>>, Map(raw)) : Len(p[2]) = 1
    /\ (/\ pc = "failed"
        /\ ArityDefects(Map(raw)) # {}
        /\ ArityDefects(Map(raw)) = Defects(<<>>, Map(raw)))
           => buildErr \in ArityDefects(Map(raw))

\* a sequence in a sequence, the inner one empty: the build fails under the
\* name of the field that holds the outer one
C10_Witness ==
    /\ pc = "failed"
    /\ DOMAIN raw = {B}
    /\ raw[B] = Slice(<<Slice(<<>>)>>)
    /\ buildErr = MissingItem(B)


\* C12: whether From succeeds, and the schema it returns when it does, are
\* the same on every order the maps of the tree can be iterated in.
C12_BuildDeterministic ==
    pc \in {"built", "failed"} =>
        \A out \in From(raw) :
            /\ (out.err = NoBuildError) <=> (buildErr = NoBuildError)
            /\ out.err = NoBuildError => out.typ = sch

\* the larger of two depths
Deeper(a, b) == IF a > b THEN a ELSE b

RECURSIVE DeepestOf(_)
\* the greatest of a sequence of depths, 0 for none
DeepestOf(depths) ==
    IF depths = <<>> THEN 0 ELSE Deeper(Head(depths), DeepestOf(Tail(depths)))

RECURSIVE ValueDepth(_)
\* the maps and sequences nested in a value of a tree, the value included
ValueDepth(value) ==
    CASE value.t = "[]interface{}" ->
           1 + DeepestOf([i \in 1..Len(value.elems) |-> ValueDepth(value.elems[i])])
      [] value.t = "map[string]interface{}" ->
           1 + DeepestOf(LET order == CHOOSE o \in Orders(DOMAIN value.m) : TRUE
                         IN [i \in 1..Len(order) |-> ValueDepth(value.m[order[i]])])
      [] OTHER -> 0

\* the nesting depth of a tree handed to From or to Validate
TreeDepth(tree) == ValueDepth(Map(tree))

\* the cap of the claim, taken below the depth of the deepest trees drawn
DepthCap == 2

\* C18: From on a tree nested deeper than the cap fails with DepthExceeded,
\* and so does Validate on an instance nested deeper than the cap.
C18_DepthGuarded ==
    /\ (pc \in {"built", "failed"} /\ TreeDepth(raw) > DepthCap) =>
          (pc = "failed" /\ buildErr.msg = "DepthExceeded")
    /\ (pc = "validated" /\ TreeDepth(dat) > DepthCap) =>
          (Len(result) = 1 /\ result[1].msg = "DepthExceeded")

RECURSIVE ArrayNodes(_)
\* the array nodes of a schema
ArrayNodes(typ) ==
    CASE typ.Kind = "Array" /\ "Array" \in DOMAIN typ -> {typ} \cup ArrayNodes(typ.Array)
      [] IsRecordType(typ) -> UNION {ArrayNodes(typ.Struct[f]) : f \in DOMAIN typ.Struct}
      [] OTHER -> {}

RECURSIVE FlagsFollowKeys(_, _, _)
\* typ is a node for the value of a key with (isOptional) or without a "?",
\* or for an item (isOptional false): its flag is isOptional, the element of
\* an array is a node for the item with the flag false, and every field of a
\* record is a node for the value of one of the keys that name it
FlagsFollowKeys(value, typ, isOptional) ==
    /\ typ.Optional = isOptional
    /\ CASE IsSlice(value) ->
              /\ typ.Kind = "Array" /\ "Array" \in DOMAIN typ /\ Len(value.elems) = 1
              /\ FlagsFollowKeys(value.elems[1], typ.Array, FALSE)
         [] IsMap(value) ->
              /\ IsRecordType(typ)
              /\ \A f \in DOMAIN typ.Struct :
                   \E k \in DOMAIN value.m :
                      /\ StripSuffix(k) = f
                      /\ FlagsFollowKeys(value.m[k], typ.Struct[f], HasSuffix(k))
         [] OTHER -> TRUE

\* C21: in a schema From returns, the optional flag of an array node is the
\* "?" of the key that carries the array, the element of every array node
\* (a primitive, an array, a record) has the flag false, the fields of an
\* element record have the flags of their own keys, and Validate rejects a
\* null element of every array node as nil but not optional.
C21_ElementsRequired ==
    pc = "built" =>
        /\ FlagsFollowKeys(Map(raw), sch, FALSE)
        /\ \A node \in ArrayNodes(sch) :
             /\ ~node.Array.Optional
             /\ \A go \in Builds :
                  validateValue(Slice(<<Nil>>), node, A, go) = {NilNotOptional(ElemPath(A, 1))}

\* an optional array of records with an optional field
C21_Witness ==
    /\ pc = "built"
    /\ DOMAIN raw = {AOpt}
    /\ raw[AOpt] = Slice(<<Map([k \in {AOpt} |-> String("string")])>>)
    /\ sch.Struct[A] = ArrayOf(StructOf([f \in {A} |-> Prim("String", TRUE)], FALSE), TRUE)

\* an identifier: not empty, a letter or an underscore first, then letters,
\* digits and underscores
IsIdentifier(name) ==
    /\ Len(name) > 0
    /\ name[1] = "_" \/ IsLetter(name[1])
    /\ \A i \in 2..Len(name) : name[i] = "_" \/ IsLetter(name[i]) \/ IsDigit(name[i])

InvalidFieldName(name) == BuildError("invalid field name: %q", name, None)

RECURSIVE MapsIn(_)
\* the maps of a tree: the root map, the maps in maps, the maps in sequences
MapsIn(value) ==
    IF IsMap(value)
    THEN {value.m} \cup UNION {MapsIn(value.m[k]) : k \in DOMAIN value.m}
    ELSE IF IsSlice(value)
    THEN UNION {MapsIn(value.elems[k]) : k \in DOMAIN value.elems}
    ELSE {}

\* the map with the one key k of m
Only(m, k) == [key \in {k} |-> m[key]]

NameDefects(value) ==
    {d \in Defects(<<>>, value) : d = InvalidFieldName(d.field)}

\* C22: at every level (root map, map in a map, map in a sequence) a key
\* whose name without one trailing "?" is no identifier makes the parse of
\* its map fail with the invalid-field-name error of that name, and a key
\* whose name is one never does.  So a build that succeeds met identifiers
\* only, a build of a tree whose only defects are such keys fails with the
\* error of one of them, and the name of an invalid-field-name error is a
\* name of the tree that is no identifier.
C22_IdentifierCheck ==
    /\ \A m \in MapsIn(Map(raw)) : \A k \in DOMAIN m :
         LET name == StripSuffix(k)
             nested == parseValueToType(A, Map(Only(m, k)), FALSE)
             root == From(Only(m, k))
         IN IF IsIdentifier(name)
            THEN /\ \A r \in nested : r.err # InvalidFieldName(name)
                 /\ \A r \in root : r.err # InvalidFieldName(name)
            ELSE /\ nested = {Failed(InvalidFieldName(name))}
                 /\ root = {FailedFrom(InvalidFieldName(name))}
    /\ pc = "built" =>
         \A m \in MapsIn(Map(raw)) : \A k \in DOMAIN m : IsIdentifier(StripSuffix(k))
    /\ (/\ pc = "failed"
        /\ NameDefects(Map(raw)) # {}
        /\ NameDefects(Map(raw)) = Defects(<<>>, Map(raw)))
           => buildErr \in NameDefects(Map(raw))
    /\ (pc = "failed" /\ buildErr = InvalidFieldName(buildErr.field)) =>
         /\ ~IsIdentifier(buildErr.field)
         /\ \E m \in MapsIn(Map(raw)) : \E k \in DOMAIN m : StripSuffix(k) = buildErr.field

\* a key that starts with a digit, in a map in a sequence of a legal key
C22_Witness ==
    /\ pc = "failed"
    /\ DOMAIN raw = {A}
    /\ raw[A] = Slice(<<Map([k \in {<<"1">>} |-> String("string")])>>)
    /\ buildErr = InvalidFieldName(<<"1">>)

\* the names of the primitive kinds, and the kinds in the same order
PrimitiveNames ==
    <<"bool", "int", "int8", "int16", "int32", "int64", "uint", "uint8", "uint16",
      "uint32", "uint64", "float32", "float64", "string", "bytes">>

PrimitiveKinds ==
    <<"Bool", "Int", "Int8", "Int16", "Int32", "Int64", "Uint", "Uint8", "Uint16",
      "Uint32", "Uint64", "Float32", "Float64", "String", "Bytes">>

IsPrimitiveName(value) ==
    value.t = "string" /\ \E i \in DOMAIN PrimitiveNames : PrimitiveNames[i] = value.s

NamedKind(value) ==
    PrimitiveKinds[CHOOSE i \in DOMAIN PrimitiveNames : PrimitiveNames[i] = value.s]

\* the error for a string that is no type name and for a value of no legal shape
ExpectedType(fieldName, value) ==
    BuildError("failed parsing field '%s', expected type, not: %s", fieldName, value)

RECURSIVE ScalarsIn(_, _, _)
\* the values of a tree that are no sequence and no map, each with the field
\* name and the "?" it is parsed under
ScalarsIn(fieldName, isOptional, value) ==
    IF IsSlice(value)
    THEN UNION {ScalarsIn(fieldName, FALSE, value.elems[k]) : k \in DOMAIN value.elems}
    ELSE IF IsMap(value)
    THEN UNION {ScalarsIn(StripSuffix(key), HasSuffix(key), value.m[key]) :
                  key \in DOMAIN value.m}
    ELSE {<<fieldName, isOptional, value>>}

ScalarDefects(value) ==
    {d \in Defects(<<>>, value) : d = ExpectedType(d.field, d.arg)}

\* C23: a string parses to a primitive node exactly when it is one of the
\* fifteen type names, letter for letter, and the node has the kind of that
\* name and the "?" of its key; every other string, and every value that is
\* no string, no sequence and no map, fails with the expected-type error that
\* names the field and the value.  So a build that succeeds met type names
\* only, and a build of a tree whose only defects are such values fails with
\* the error of one of them.
C23_ValueShapes ==
    /\ \A p \in ScalarsIn(<<>>, FALSE, Map(raw)) :
         LET fieldName == p[1]
             isOptional == p[2]
             value == p[3]
             out == parseValueToType(fieldName, value, isOptional)
         IN IF IsPrimitiveName(value)
            THEN out = {Built(Prim(NamedKind(value), isOptional))}
            ELSE out = {Failed(ExpectedType(fieldName, value))}
    /\ pc = "built" => \A p \in ScalarsIn(<<>>, FALSE, Map(raw)) : IsPrimitiveName(p[3])
    /\ (/\ pc = "failed"
        /\ ScalarDefects(Map(raw)) # {}
        /\ ScalarDefects(Map(raw)) = Defects(<<>>, Map(raw)))
           => buildErr \in ScalarDefects(Map(raw))

\* the name of the string kind with a capital, in a sequence
C23_Witness ==
    /\ pc = "failed"
    /\ DOMAIN raw = {A}
    /\ raw[A] = Slice(<<String("String")>>)
    /\ buildErr = ExpectedType(A, String("String"))

RECURSIVE Nodes(_)
\* the nodes of a schema, the root included
Nodes(typ) ==
    {typ}
    \cup (IF "Array" \in DOMAIN typ THEN Nodes(typ.Array) ELSE {})
    \cup (IF "Struct" \in DOMAIN typ
          THEN UNION {Nodes(typ.Struct[f]) : f \in DOMAIN typ.Struct} ELSE {})

\* a node with its payload: fields for a record and nothing else, an element
\* for an array and nothing else, neither for the primitive kinds
WellFormed(node) ==
    CASE node.Kind = "Struct" -> "Struct" \in DOMAIN node /\ "Array" \notin DOMAIN node
      [] node.Kind = "Array" -> "Array" \in DOMAIN node /\ "Struct" \notin DOMAIN node
      [] OTHER ->
           /\ node.Kind \in Kinds
           /\ "Array" \notin DOMAIN node /\ "Struct" \notin DOMAIN node

\* C24: the root of a schema From returns is a record that is not optional,
\* and every node of it is well formed and of a kind other than Invalid.
C24_WellFormed ==
    pc = "built" =>
        /\ sch.Kind = "Struct" /\ ~sch.Optional
        /\ \A node \in Nodes(sch) : WellFormed(node) /\ node.Kind # "Invalid"

\* a record in a record with a primitive field
C24_Witness ==
    /\ pc = "built"
    /\ DOMAIN raw = {A}
    /\ raw[A] = Map([k \in {X} |-> Map([k2 \in {A} |-> String("string")])])
    /\ sch = StructOf([f \in {A} |->
                 StructOf([g \in {X} |->
                    StructOf([h \in {A} |-> Prim("String", FALSE)], FALSE)], FALSE)], FALSE)

(***************************************************************************)
(* SpecEmit: a schema is built from a tree, or made by the caller (also    *)
(* one no builder returns: a node of no kind, an array or a record node    *)
(* without its element or fields, a root that is no record, nil), and an   *)
(* emitter is called on it.                                                *)
(***************************************************************************)
\* a string of Go as the sequence of its characters
Chars(str) ==
    CASE str = "addresses" -> <<"a", "d", "d", "r", "e", "s", "s", "e", "s">>
      [] str = "street" -> <<"s", "t", "r", "e", "e", "t">>
      [] str = "city" -> <<"c", "i", "t", "y">>
      [] str = "a_b" -> <<"a", "_", "b">>
      [] str = "a-b" -> <<"a", "-", "b">>
      [] str = "a b" -> <<"a", " ", "b">>
      [] str = "aB" -> <<"a", "B">>
      [] str = "_a" -> <<"_", "a">>
      [] str = "b1" -> <<"b", "1">>
      [] str = "Addresses" -> <<"A", "d", "d", "r", "e", "s", "s", "e", "s">>
      [] str = "RootAddresses" ->
           <<"R", "o", "o", "t", "A", "d", "d", "r", "e", "s", "s", "e", "s">>
      [] OTHER -> <<str>>

EmitNames ==
    {A, B, Chars("a_b"), Chars("a-b"), Chars("a b"), Chars("aB"), Chars("_a"), Chars("b1")}

RootNames == {<<>>, <<"T">>}

Leaf1 == [f \in {A} |-> Prim("String", FALSE)]

Leaf2 == [f \in {B} |-> Prim("Int8", TRUE)]

AddressRecord == [f \in {Chars("street"), Chars("city")} |-> Prim("String", FALSE)]

AddressSchema ==
    StructOf([f \in {Chars("addresses")} |-> ArrayOf(StructOf(AddressRecord, FALSE), FALSE)],
             FALSE)

\* the types of a field of a schema handed to an emitter
EmitTypes ==
    { Prim("String", FALSE), Prim("Int8", TRUE), Prim("Bytes", TRUE),
      StructOf(Leaf1, FALSE), StructOf(Leaf2, TRUE),
      ArrayOf(Prim("String", FALSE), TRUE),
      ArrayOf(StructOf(Leaf1, FALSE), FALSE),
      ArrayOf(ArrayOf(Prim("String", FALSE), FALSE), FALSE),
      ArrayOf(ArrayOf(StructOf(Leaf1, FALSE), FALSE), FALSE),
      StructOf([f \in {B} |-> StructOf(Leaf2, FALSE)], FALSE),
      ArrayOf(StructOf([f \in {A, B} |-> IF f = A THEN ArrayOf(StructOf(Leaf1, FALSE), FALSE)
                                                  ELSE StructOf(Leaf2, TRUE)], FALSE), FALSE) }

\* nodes no builder returns
BrokenTypes ==
    { Prim("Invalid", FALSE), Prim("Array", FALSE), Prim("Struct", FALSE),
      ArrayOf(Prim("Invalid", FALSE), FALSE) }

HandMade ==
    {StructOf([f \in {n1} |-> t1], FALSE) : n1 \in EmitNames, t1 \in EmitTypes \cup BrokenTypes}
    \cup {StructOf([f \in {n1, n2} |-> IF f = n1 THEN t1 ELSE t2], FALSE) :
            n1 \in EmitNames, n2 \in EmitNames, t1 \in EmitTypes,
            t2 \in EmitTypes \cup BrokenTypes}
    \cup {AddressSchema, StructOf(<<>>, FALSE), Prim("String", FALSE),
          ArrayOf(StructOf(Leaf1, FALSE), FALSE), None}

InitEmit ==
    /\ buildErr = NoBuildError
    /\ dat = None /\ result = <<>> /\ prevData = None /\ step = None
    /\ emitted = None /\ calls = <<>>
    /\ \/ raw \in RawTrees /\ sch = None /\ pc = "raw"
       \/ raw = None /\ sch \in HandMade /\ pc = "schema"

\* the emitter of the target
Emitter(target, t, rootType) ==
    CASE target = "go" -> ToGolang(t, rootType)
      [] target = "rust" -> ToRust(t, rootType)
      [] OTHER -> ToTypeScript(t, rootType)

\* out, err := ToGolang(schema, opts), or ToRust, or ToTypeScript
CallEmit ==
    /\ pc \in {"built", "schema"}
    /\ \E target \in Targets, rootType \in RootNames :
         \E e \in Emitter(target, sch, rootType) :
            emitted' = [target |-> target, rootType |-> rootType,
                        out |-> e.out, err |-> e.err]
    /\ pc' = "emitted"
    /\ UNCHANGED <<raw, sch, buildErr, dat, result, prevData, step, calls>>

NextEmit == CallFrom \/ CallEmit

SpecEmit == InitEmit /\ [][NextEmit]_vars


(***************************************************************************)
(* Properties of the builder and the emitters, checked under SpecEmit.     *)
(***************************************************************************)
\* something in the tree is illegal: a key that is no field name, a string
\* that is no type name, a sequence of no or several elements, a value that
\* is no string, sequence or map
RECURSIVE IllegalIn(_)
IllegalIn(value) ==
    IF IsMap(value)
    THEN \E key \in DOMAIN value.m :
            ~isValidFieldName(StripSuffix(key)) \/ IllegalIn(value.m[key])
    ELSE IF IsSlice(value)
    THEN Len(value.elems) # 1 \/ \E k \in DOMAIN value.elems : IllegalIn(value.elems[k])
    ELSE ~(value.t = "string" /\ value.s \in DOMAIN TypeNames)

\* C11: a tree that holds anything illegal anywhere makes From return an
\* error, and with an error From returns no schema at all (nil), whatever it
\* parsed before; an emitter that returns an error returns no bytes (nil).
C11_AllOrNothing ==
    /\ (raw # None /\ pc # "raw") =>
          /\ IllegalIn(Map(raw)) => buildErr # NoBuildError
          /\ buildErr # NoBuildError => sch = None
    /\ pc = "emitted" => (emitted.err # NoEmitError => emitted.out = None)

\* the build fails at field b after field a parsed, or before it
C11_Witness ==
    /\ pc = "failed"
    /\ DOMAIN raw = {A, <<"b", "?">>}
    /\ raw[A] = Map([k \in {AOpt} |-> String("string")])
    /\ raw[<<"b", "?">>] = String("text")
    /\ sch = None
    /\ buildErr.field = B


\* the type under the arrays of a field's type
RECURSIVE Element(_)
Element(t) == IF t.Kind = "Array" /\ "Array" \in DOMAIN t THEN Element(t.Array) ELSE t

\* the record nodes below the record named structName at path, each as the
\* pair of the name computed for it and the path of field names to it
RECURSIVE RecordsBelow(_, _, _)
RecordsBelow(fields, structName, path) ==
    UNION { LET inner == Element(fields[f])
                name == structName \o toCamelCase(f)
            IN IF IsRecordType(inner)
               THEN {<<name, path \o <<f>>>>} \cup RecordsBelow(inner.Struct, name, path \o <<f>>)
               ELSE {} :
            f \in DOMAIN fields }

\* the records of the schema in use under the root name of the last call
EmittedRoot == IF emitted.rootType = <<>> THEN Root ELSE emitted.rootType

Records == {<<EmittedRoot, <<>>>>} \cup RecordsBelow(sch.Struct, EmittedRoot, <<>>)

\* no two records compute the same name
NoNameClash == \A p, q \in Records : p[1] = q[1] => p = q

\* the names declared in the output, in the order of their declarations
DeclaredSeq(out) ==
    LET types == SelectSeq(out, LAMBDA line : line.k = "type")
    IN [k \in DOMAIN types |-> types[k].name]

Declared(out) == {out[k].name : k \in {j \in DOMAIN out : out[j].k = "type"}}

\* the pieces of a type token that are no part of a record name
TokenWords ==
    {"[]", "*", "Option<", "Vec<", ">"}
    \cup {GoPrimitives[k] : k \in DOMAIN GoPrimitives}
    \cup {RustPrimitives[k] : k \in DOMAIN RustPrimitives}
    \cup {TypeScriptPrimitives[k] : k \in DOMAIN TypeScriptPrimitives}

\* the record name a type token uses (<<>> when it uses none)
UsedName(token) == SelectSeq(token, LAMBDA piece : piece \notin TokenWords)

UsedNames(out) ==
    {UsedName(out[k].typ) : k \in {j \in DOMAIN out : out[j].k = "field"}} \ {<<>>}

\* C14: when no two records of the schema compute the same name, the output
\* of ToGolang, ToRust and ToTypeScript declares every record reachable from
\* the root (as a field, as the element of an array, through arrays in
\* arrays), so every record name used in a field's type token is declared.
C14_EveryRecordDeclared ==
    (pc = "emitted" /\ emitted.err = NoEmitError /\ NoNameClash) =>
        /\ \A p \in Records : p[1] \in Declared(emitted.out)
        /\ UsedNames(emitted.out) \subseteq Declared(emitted.out)


\* PascalCase: the characters of s that are no underscore, hyphen or space,
\* in upper case when first in s or next after a removed character
PascalCase(s) ==
    LET separators == {"_", "-", " "}
        kept == SelectSeq([k \in 1..Len(s) |-> k], LAMBDA k : s[k] \notin separators)
    IN [i \in DOMAIN kept |->
          IF kept[i] = 1 \/ s[kept[i] - 1] \in separators
          THEN ToUpper(s[kept[i]]) ELSE s[kept[i]]]

\* the names P + PascalCase(f) of the records held by a field f, or by an
\* array field f as its element, of the record named structName and below
RECURSIVE PascalNames(_, _)
PascalNames(fields, structName) ==
    UNION { LET held == IF fields[f].Kind = "Array" /\ "Array" \in DOMAIN fields[f]
                        THEN fields[f].Array ELSE fields[f]
                name == structName \o PascalCase(f)
            IN IF IsRecordType(held)
               THEN {name} \cup PascalNames(held.Struct, name)
               ELSE {} :
            f \in DOMAIN fields }

\* C15: the declarations of an output are the root and the records held by
\* a field f (or by an array field f as its element) of a declared record P,
\* each under the name P + PascalCase(f), which the field's type token
\* uses; all of them are declared when no two records compute the same
\* name.  For {addresses: [{street, city}]} the declarations are the root
\* and <Root>Addresses, in this order.
C15_Naming ==
    (pc = "emitted" /\ emitted.err = NoEmitError) =>
        LET names == PascalNames(sch.Struct, EmittedRoot) IN
        /\ Declared(emitted.out) \subseteq {EmittedRoot} \cup names
        /\ NoNameClash =>
             /\ {EmittedRoot} \cup names \subseteq Declared(emitted.out)
             /\ names \subseteq UsedNames(emitted.out)
        /\ sch = AddressSchema =>
             /\ DeclaredSeq(emitted.out) = <<EmittedRoot, EmittedRoot \o Chars("Addresses")>>
             /\ emitted.rootType = <<>> =>
                  DeclaredSeq(emitted.out) = <<Root, Chars("RootAddresses")>>

\* ToRust on {addresses: [{street, city}]} with the default root name
C15_Witness ==
    /\ pc = "emitted" /\ emitted.err = NoEmitError
    /\ sch = AddressSchema
    /\ emitted.target = "rust" /\ emitted.rootType = <<>>
    /\ DeclaredSeq(emitted.out) = <<Root, Chars("RootAddresses")>>


\* C16: every run of an emitter on the same schema with the same root name
\* declares the same names in the same order, whatever order the field maps
\* are iterated in.
C16_SameSequence ==
    (pc = "emitted" /\ emitted.err = NoEmitError) =>
        \A e \in Emitter(emitted.target, sch, emitted.rootType) :
            /\ e.err = NoEmitError
            /\ DeclaredSeq(e.out) = DeclaredSeq(emitted.out)

\* no name twice in the sequence
NoDuplicate(names) == \A i, j \in DOMAIN names : names[i] = names[j] => i = j

\* the schema in use has a record for its root
RecordRooted == sch # None /\ sch.Kind = "Struct"

\* C25: for a record-rooted schema, with or without records that compute
\* the same name, no name is declared twice in the output, and the walk ends
\* (with or without an error) with generatedStructs holding exactly the names
\* of the declarations it wrote, each written once.
C25_DeclaredOnce ==
    /\ (pc = "emitted" /\ RecordRooted /\ emitted.err = NoEmitError) =>
         NoDuplicate(DeclaredSeq(emitted.out))
    /\ (pc \in {"built", "schema"} /\ RecordRooted) =>
         \A target \in Targets, rootType \in RootNames :
             \A w \in generateStructs(target, sch, IF rootType = <<>> THEN Root ELSE rootType,
                                      <<>>, {}) :
                 /\ w.generated = Declared(w.buf)
                 /\ NoDuplicate(DeclaredSeq(w.buf))

\* the record of b in a and the record of a_b both compute RootAB: four
\* records, three declarations
C25_Witness ==
    /\ pc = "emitted" /\ emitted.err = NoEmitError /\ emitted.rootType = <<>>
    /\ DOMAIN sch.Struct = {A, Chars("a_b")}
    /\ sch.Struct[A] = StructOf([f \in {B} |-> StructOf(Leaf2, FALSE)], FALSE)
    /\ sch.Struct[Chars("a_b")] = StructOf(Leaf1, FALSE)
    /\ Len(DeclaredSeq(emitted.out)) = 3
    /\ Declared(emitted.out) = {Root, Root \o <<"A">>, Root \o <<"A", "B">>}

\* the name of the schema field a field line was written for
FieldOf(target, line) ==
    CASE target = "go" ->
           IF line.tag[Len(line.tag)] = ",omitempty"
           THEN SubSeq(line.tag, 1, Len(line.tag) - 1) ELSE line.tag
      [] target = "rust" -> line.tag
      [] OTHER ->
           IF line.name[Len(line.name)] = "?"
           THEN SubSeq(line.name, 1, Len(line.name) - 1) ELSE line.name

\* the field lines of the declaration of the name, in their order
DeclLines(out, name) ==
    LET first == CHOOSE i \in DOMAIN out : out[i] = TypeLine(name)
        last == CHOOSE j \in DOMAIN out :
                  /\ j > first /\ out[j] = EndLine
                  /\ \A m \in (first + 1)..(j - 1) : out[m] # EndLine
    IN SubSeq(out, first + 1, last - 1)

\* the fields of the declaration of the name, in their order
DeclFields(target, out, name) ==
    LET lines == DeclLines(out, name)
    IN [i \in DOMAIN lines |-> FieldOf(target, lines[i])]

\* the place of the field in the declaration of the name
FieldPlace(target, out, name, f) ==
    CHOOSE i \in DOMAIN DeclFields(target, out, name) : DeclFields(target, out, name)[i] = f

\* the set of the elements of a sequence
Range(seq) == {seq[i] : i \in DOMAIN seq}

\* C26: when two record fields of the root compute the same name, the
\* declaration of that name has the fields of the record of the one the walk
\* visits first (the one whose field line comes first in the root's
\* declaration).
C26_FirstOccurrence ==
    (pc = "emitted" /\ emitted.err = NoEmitError /\ RecordRooted) =>
        \A f, g \in DOMAIN sch.Struct :
            LET name == EmittedRoot \o toCamelCase(f) IN
            (/\ f # g /\ toCamelCase(f) = toCamelCase(g)
             /\ IsRecordType(sch.Struct[f]) /\ IsRecordType(sch.Struct[g])
             /\ FieldPlace(emitted.target, emitted.out, EmittedRoot, f)
                  < FieldPlace(emitted.target, emitted.out, EmittedRoot, g))
            => Range(DeclFields(emitted.target, emitted.out, name)) = DOMAIN sch.Struct[f].Struct

\* every declaration of the output is whole: its first line, its field lines
\* and its last line, with no line of another declaration among them
WholeDeclarations(out) ==
    \A i \in DOMAIN out :
        /\ out[i].k = "type" => (i = 1 \/ out[i - 1].k \in {"header", "end"})
        /\ out[i].k \in {"field", "end"} => (i > 1 /\ out[i - 1].k \in {"type", "field"})
        /\ out[i].k \in {"type", "field"} => (i < Len(out) /\ out[i + 1].k \in {"field", "end"})

\* the records of the schema that the output declares
Shown == {p \in Records : p[1] \in Declared(emitted.out)}

\* the declared records in the subtree of the record p, p not among them
ShownBelow(p) ==
    {q \in Shown : Len(q[2]) > Len(p[2]) /\ SubSeq(q[2], 1, Len(p[2])) = p[2]}

\* the place of the declaration of the name among the declarations
Place(name) ==
    CHOOSE i \in DOMAIN DeclaredSeq(emitted.out) : DeclaredSeq(emitted.out)[i] = name

\* C27: the root's declaration is the first; every declaration is whole
\* before the next one begins, and the declarations of the subtree of a
\* record follow the record's own declaration at once, before any other
\* declaration (depth-first pre-order).
C27_DeclarationOrder ==
    (pc = "emitted" /\ emitted.err = NoEmitError /\ RecordRooted /\ NoNameClash) =>
        /\ DeclaredSeq(emitted.out)[1] = EmittedRoot
        /\ WholeDeclarations(emitted.out)
        /\ \A p \in Shown :
             {Place(q[1]) : q \in ShownBelow(p)}
                 = (Place(p[1]) + 1)..(Place(p[1]) + Cardinality(ShownBelow(p)))

\* a root with two record fields that hold records themselves: the subtree
\* of a is declared whole before the record of b
C27_Witness ==
    /\ pc = "emitted" /\ emitted.err = NoEmitError /\ NoNameClash
    /\ sch \in HandMade /\ DOMAIN sch.Struct = {A, B}
    /\ emitted.rootType = <<>>
    /\ Len(DeclaredSeq(emitted.out)) = 6
    /\ SubSeq(DeclaredSeq(emitted.out), 1, 4)
         = <<Root, Root \o <<"A">>, Root \o <<"A", "B">>, Root \o <<"B">> >>

\* the fields of the record at the path of field names, through the arrays
RECURSIVE FieldsOn(_, _)
FieldsOn(fields, path) ==
    IF path = <<>> THEN fields
    ELSE FieldsOn(Element(fields[Head(path)]).Struct, Tail(path))

\* the type token starts with the pointer
Wrapped(token) == token # <<>> /\ token[1] = "*"

\* the field is optional and its kind is neither array nor bytes
WrapDue(fieldType) == fieldType.Optional /\ fieldType.Kind \notin {"Array", "Bytes"}

\* the field lines of the declaration of the record p have the pointer
\* exactly on the fields it is due on
WrapsRight(p) ==
    LET fields == FieldsOn(sch.Struct, p[2])
        lines == DeclLines(emitted.out, p[1])
    IN /\ {FieldOf("go", lines[i]) : i \in DOMAIN lines} = DOMAIN fields
       /\ \A i \in DOMAIN lines :
            Wrapped(lines[i].typ) <=> WrapDue(fields[FieldOf("go", lines[i])])

\* C28: in the output of ToGolang the type token of a field starts with the
\* pointer exactly when the field is optional and neither an array nor
\* bytes: optional scalars and optional records have it, optional arrays,
\* optional bytes and required fields have not.
C28_GoOptionalPointer ==
    /\ \A kind \in DOMAIN GoPrimitives : \A optional \in BOOLEAN :
         typeToGoType(Prim(kind, optional), Root, A).typ
             = (IF optional /\ kind # "Bytes" THEN <<"*">> ELSE <<>>) \o <<GoPrimitives[kind]>>
    /\ (pc = "emitted" /\ emitted.err = NoEmitError /\ emitted.target = "go" /\ RecordRooted) =>
         /\ WrapsRight(<<EmittedRoot, <<>>>>)
         /\ NoNameClash => \A p \in Shown : WrapsRight(p)

\* an optional record next to an optional array, and an optional int8 inside
C28_Witness ==
    /\ pc = "emitted" /\ emitted.err = NoEmitError /\ emitted.target = "go"
    /\ sch \in HandMade /\ DOMAIN sch.Struct = {A, B}
    /\ sch.Struct[A] = StructOf(Leaf2, TRUE)
    /\ sch.Struct[B] = ArrayOf(Prim("String", FALSE), TRUE)
    /\ \E i, j \in DOMAIN emitted.out :
         /\ emitted.out[i].k = "field" /\ emitted.out[i].typ = <<"*">> \o EmittedRoot \o <<"A">>
         /\ emitted.out[j].k = "field" /\ emitted.out[j].typ = <<"[]", "string">>
    /\ DeclLines(emitted.out, EmittedRoot \o <<"A">>)[1].typ = <<"*", "int8">>

\* C29: for a schema returned by parser.From, the name computed for a nested
\* record differs from the name of every record it is nested in, so no
\* declaration of the output has a field whose type token uses the
\* declaration's own name.
C29_NameDiffersFromAncestors ==
    (pc = "emitted" /\ raw # None /\ RecordRooted) =>
        /\ \A p, q \in Records :
             (Len(q[2]) > Len(p[2]) /\ SubSeq(q[2], 1, Len(p[2])) = p[2]) => q[1] # p[1]
        /\ emitted.err = NoEmitError =>
             \A name \in Declared(emitted.out) :
                 \A i \in DOMAIN DeclLines(emitted.out, name) :
                     UsedName(DeclLines(emitted.out, name)[i].typ) # name

(***************************************************************************)
(* Invocations sharing one schema.  Several goroutines call Validate and   *)
(* the emitters on the same *yema.Type (and Validate on the same instance  *)
(* map).  An invocation's locals (its error list, buffer, maps of names)   *)
(* are its own; the schema and the instance are the shared memory.  One    *)
(* step of an invocation is one iteration of its loop over the root's      *)
(* fields, or the generation of one nested declaration, and the steps of   *)
(* the invocations in flight interleave.                                   *)
(***************************************************************************)
Ops == {"validate", "jsonschema", "cue"} \cup Targets

\* the invocations in flight at a time
MaxCalls == 2

\* the build the invocations run in
ThisBuild == CHOOSE go \in Builds : TRUE

\* the invocations in flight are kept by operation
OpOrder == <<"validate", "go", "rust", "ts", "jsonschema", "cue">>

Rank(op) == CHOOSE i \in 1..Len(OpOrder) : OpOrder[i] = op

\* the invocations in flight and one more
Join(inFlight, c) ==
    LET k == Cardinality({i \in 1..Len(inFlight) : Rank(inFlight[i].op) <= Rank(c.op)})
    IN SubSeq(inFlight, 1, k) \o <<c>> \o SubSeq(inFlight, k + 1, Len(inFlight))

\* an invocation in its loop
Running(op, rootType, go, phase, todo, acc) ==
    [op |-> op, rootType |-> rootType, go |-> go, phase |-> phase,
     todo |-> todo, acc |-> acc, result |-> None]

\* an invocation that has returned
Returned(op, rootType, go, value) ==
    [op |-> op, rootType |-> rootType, go |-> go, phase |-> "done",
     todo |-> {}, acc |-> None, result |-> value]

\* what a step of an invocation leaves: its own state, the schema, the instance
Memory(call, t, data) == [call |-> call, schema |-> t, data |-> data]

HeaderOf(target) == IF target = "ts" THEN <<>> ELSE <<HeaderLine>>

FooterOf(target) == IF target = "rust" THEN <<FooterLine>> ELSE <<>>

\* the call up to the first iteration of its loop over the root's fields
Begin(op, rootType, go, t) ==
    LET structName == IF rootType = <<>> THEN Root ELSE rootType
    IN CASE op = "validate" ->
              IF "Struct" \notin DOMAIN t
              THEN Returned(op, rootType, go, <<Errorf("invalid schema", <<>>)>>)
              ELSE IF DOMAIN t.Struct = {} THEN Returned(op, rootType, go, <<>>)
              ELSE Running(op, rootType, go, "fields", DOMAIN t.Struct, <<>>)
         [] t = None -> Returned(op, rootType, go, Emitted(None, "nil type provided"))
         [] t.Kind # "Struct" ->
              Returned(op, rootType, go,
                       Emitted(None, "expected root type to be Struct, got %v"))
         [] op = "jsonschema" ->
              IF "Struct" \notin DOMAIN t
              THEN Returned(op, rootType, go,
                            Emitted(None, "struct type with nil Struct field"))
              ELSE IF DOMAIN t.Struct = {}
              THEN Returned(op, rootType, go,
                            Emitted(Document(RequiredOf(ObjectSchema)), NoEmitError))
              ELSE Running(op, rootType, go, "fields", DOMAIN t.Struct, ObjectSchema)
         [] op = "cue" ->
              IF "Struct" \notin DOMAIN t
              THEN Returned(op, rootType, go,
                            Emitted(None, "struct type with nil Struct field"))
              ELSE IF DOMAIN t.Struct = {}
              THEN Returned(op, rootType, go,
                            Emitted([Decls |-> <<[Elts |-> <<>>]>>], NoEmitError))
              ELSE Running(op, rootType, go, "fields", DOMAIN t.Struct, <<>>)
         [] OTHER ->
              IF "Struct" \notin DOMAIN t
              THEN Returned(op, rootType, go, Emitted(None, "panic: nil pointer dereference"))
              ELSE IF DOMAIN t.Struct = {}
              THEN Returned(op, rootType, go,
                            Emitted(HeaderOf(op) \o <<TypeLine(structName), EndLine>>
                                      \o FooterOf(op), NoEmitError))
              ELSE Running(op, rootType, go, "fields", DOMAIN t.Struct,
                           [buf |-> HeaderOf(op) \o <<TypeLine(structName)>>,
                            nested |-> <<>>, generated |-> {structName}])

\* a Validate iteration that takes the field it validated out of the instance
stepValidateConsuming(c, fieldName, t, data) ==
    { Memory(IF c.todo = {fieldName} THEN Returned(c.op, c.rootType, c.go, c.acc \o errs)
             ELSE [c EXCEPT !.todo = @ \ {fieldName}, !.acc = @ \o errs],
             t, [k \in DOMAIN data \ {fieldName} |-> data[k]]) :
      errs \in validateRoot(data, t.Struct, <<fieldName>>, c.go) }

\* one iteration of Validate's loop, on the field fieldName
stepValidate(c, fieldName, t, data) ==
    { Memory(IF c.todo = {fieldName} THEN Returned(c.op, c.rootType, c.go, c.acc \o errs)
             ELSE [c EXCEPT !.todo = @ \ {fieldName}, !.acc = @ \o errs],
             t, data) :
      errs \in validateRoot(data, t.Struct, <<fieldName>>, c.go) }

\* the emitter after its last field or nested declaration
afterLoop(c, acc, todo) ==
    IF todo # {} THEN [c EXCEPT !.todo = todo, !.acc = acc]
    ELSE IF c.phase = "fields" /\ DOMAIN acc.nested # {}
    THEN Running(c.op, c.rootType, c.go, "nested", DOMAIN acc.nested,
                 [acc EXCEPT !.buf = @ \o <<EndLine>>])
    ELSE Returned(c.op, c.rootType, c.go,
                  Emitted(acc.buf \o (IF c.phase = "fields" THEN <<EndLine>> ELSE <<>>)
                            \o FooterOf(c.op), NoEmitError))

\* one iteration of the root's field loop of generateStructs, or of its loop
\* over the nested declarations
stepGenerate(c, name, t, data) ==
    IF c.phase = "fields"
    THEN LET structName == IF c.rootType = <<>> THEN Root ELSE c.rootType
             g == generateFields(c.op, t.Struct, <<name>>, structName,
                                 c.acc.buf, c.acc.nested)
         IN { Memory(IF g.err # NoEmitError
                     THEN Returned(c.op, c.rootType, c.go, Emitted(None, g.err))
                     ELSE afterLoop(c, [c.acc EXCEPT !.buf = g.buf, !.nested = g.nested],
                                    c.todo \ {name}),
                     t, data) }
    ELSE { Memory(IF w.err # NoEmitError
                  THEN Returned(c.op, c.rootType, c.go, Emitted(None, w.err))
                  ELSE afterLoop(c, [c.acc EXCEPT !.buf = w.buf, !.generated = w.generated],
                                 c.todo \ {name}),
                  t, data) :
           w \in generateStructs(c.op, c.acc.nested[name], name, c.acc.buf,
                                 c.acc.generated) }

\* one iteration of the root's field loop of typeToJSONSchema
stepJSONSchema(c, fieldName, t, data) ==
    { Memory(IF p.err # NoEmitError
             THEN Returned(c.op, c.rootType, c.go, Emitted(None, p.err))
             ELSE IF c.todo = {fieldName}
             THEN Returned(c.op, c.rootType, c.go,
                           Emitted(Document(RequiredOf(p.schema)), NoEmitError))
             ELSE [c EXCEPT !.todo = @ \ {fieldName}, !.acc = p.schema],
             t, data) :
      p \in propertyOf(t.Struct, fieldName, c.acc) }

\* one iteration of the root's field loop of typeToAstExpr
stepCue(c, k, t, data) ==
    { Memory(IF e.err # NoEmitError
             THEN Returned(c.op, c.rootType, c.go, Emitted(None, e.err))
             ELSE IF c.todo = {k}
             THEN Returned(c.op, c.rootType, c.go,
                           Emitted([Decls |-> <<[Elts |-> e.expr]>>], NoEmitError))
             ELSE [c EXCEPT !.todo = @ \ {k}, !.acc = e.expr],
             t, data) :
      e \in eltOf(t.Struct, k, c.acc) }

\* the next step of the invocation, on any of the names its loop has left
Step(c, t, data) ==
    UNION { CASE c.op = "validate" -> stepValidate(c, name, t, data)
              [] c.op = "jsonschema" -> stepJSONSchema(c, name, t, data)
              [] c.op = "cue" -> stepCue(c, name, t, data)
              [] OTHER -> stepGenerate(c, name, t, data) :
            name \in c.todo }

\* the results of the call when it runs with no other invocation in flight
Alone(op, rootType, go, t, data) ==
    CASE op = "validate" -> Validate(data, t, go)
      [] op = "jsonschema" -> ToJSONSchema(t)
      [] op = "cue" -> ToCue(t)
      [] OTHER -> Emitter(op, t, rootType)

\* the schemas shared: two nested declarations, a node of no kind, no field,
\* no field map, nil
ShareSchemas ==
    { StructOf([f \in {A, B} |-> IF f = A THEN ArrayOf(StructOf(Rec1, FALSE), FALSE)
                                 ELSE StructOf(Leaf2, TRUE)], FALSE),
      StructOf([f \in {A, B} |-> IF f = A THEN Prim("String", FALSE)
                                 ELSE Prim("Invalid", FALSE)], FALSE),
      StructOf(<<>>, FALSE), Prim("Struct", FALSE), None }

\* the instance shared: a record with two ill-typed fields in a, no record in b
ShareInstances ==
    { [f \in {A, B} |->
         IF f = A THEN Slice(<<Map([g \in {A, B} |-> IF g = A THEN Integer("int", Num(5))
                                                     ELSE String("s")])>>)
         ELSE String("s")] }

InitShare ==
    /\ raw = None /\ buildErr = NoBuildError /\ result = <<>>
    /\ prevData = None /\ step = None /\ emitted = None /\ calls = <<>>
    /\ pc = "shared"
    /\ sch \in ShareSchemas
    /\ dat \in ShareInstances

\* a goroutine calls Validate or an emitter on the shared schema
BeginCall ==
    /\ pc = "shared"
    /\ Len(calls) < MaxCalls
    /\ \E op \in Ops :
         calls' = Join(calls, Begin(op, <<>>, ThisBuild, sch))
    /\ UNCHANGED <<raw, sch, buildErr, dat, result, prevData, step, emitted, pc>>

\* an invocation in flight takes its next step
StepCall ==
    /\ pc = "shared"
    /\ \E i \in 1..Len(calls) :
         /\ calls[i].phase # "done"
         /\ \E m \in Step(calls[i], sch, dat) :
              /\ calls' = [calls EXCEPT ![i] = m.call]
              /\ sch' = m.schema
              /\ dat' = m.data
    /\ UNCHANGED <<raw, buildErr, result, prevData, step, emitted, pc>>

NextShare == BeginCall \/ StepCall

SpecShare == InitShare /\ [][NextShare]_vars

\* C17: no step of a Validate or emitter invocation changes the shared schema
\* or the shared instance, and every invocation that has returned, whatever
\* the steps of the other invocations it interleaved with, has returned one
\* of the results the same call returns when it runs alone
C17_SharedSchema ==
    /\ [][sch' = sch /\ dat' = dat]_vars
    /\ [](\A i \in 1..Len(calls) :
            calls[i].phase = "done" =>
              calls[i].result \in Alone(calls[i].op, calls[i].rootType, calls[i].go,
                                        sch, dat))

\* a Validate that has found an error is still in its loop while an emitter
\* that has written the root's declaration is in its loop over the nested ones
C17_Witness ==
    /\ Len(calls) = 2
    /\ calls[1].op = "validate" /\ calls[1].phase = "fields" /\ calls[1].acc # <<>>
    /\ calls[2].op \in Targets /\ calls[2].phase = "nested"
    /\ Cardinality(calls[2].todo) = 1 /\ Cardinality(DOMAIN calls[2].acc.nested) = 2

====
